---- MODULE Spec2Model ----
(***************************************************************************)
(* A model of the autocomplete backend: the native vector store            *)
(* (storage/bluge.go over storage/vector_search.c), the completion service *)
(* (completer/service.go) with its embedding cache and snapshot file, and  *)
(* the HTTP handlers that start the service's operations.                  *)
(*                                                                         *)
(* Four specifications share the variables:                                *)
(*   SpecStore     the store alone: Add, Query and Close on bounded inputs *)
(*   Spec          the service, one operation at a time                    *)
(*   SpecAddQuery  Add in one goroutine and Query in another, interleaved  *)
(*                 statement by statement                                  *)
(*   SpecConc      the indexing calls the handlers start, interleaved at   *)
(*                 their accesses to the inventory                         *)
(***************************************************************************)
EXTENDS Integers, Sequences, FiniteSets, TLC

\* ------------------------------------------------------------------ bounds

\* The most vectors one store-level Add is given.
MaxVecs == 3

\* Fixed-point resolution of a distance: sqrtf's result in 1/Scale units.
Scale == 10

\* The dimension the store is created with (embedder.GetDimensions()).
Dim == 2

\* FLT_MAX, above every distance the bounded vectors can have.
FLT_MAX == 1000000

\* The k GetCompletion passes to Query.
TopK == 5

NULL == 0

\* No call recorded.
None == [op |-> "none"]

\* Coordinates of the bounded vectors.
Coord == {0, 1}

\* Query vectors of dimension d.
Vecs(d) == [1..d -> Coord]

\* Stored vectors of dimension d: the origin and the unit vectors.
RECURSIVE Sum(_, _)
Sum(v, i) == IF i > Len(v) THEN 0 ELSE v[i] + Sum(v, i + 1)

UnitVecs(d) == {v \in Vecs(d) : Sum(v, 1) <= 1}

\* A vector of a wrong (smaller) dimension.
ShortVec == [j \in 1..(Dim - 1) |-> 1]

\* The vectors a Query is given: of the store's dimension, and a short one.
QueryVecs == Vecs(Dim) \cup {ShortVec}

DocNames == <<"d1", "d2", "d3", "d4", "d5", "d6", "d7", "d8">>

VARIABLES
    store,          \* CGoStore: index, docs, dim, cVectors, cData
    heap,           \* the C heap: address -> block
    lastWrite,      \* the last Add or Close call on the store: arguments and result
    lastQuery,      \* the Query call made since, if any: arguments and result
    indexedData,    \* CompletionService.indexedData: path -> chunks
    cache,          \* InMemoryCache.store: key -> embedding
    disk,           \* the snapshot file index.gob of the workspace root, if written
    lastOp,         \* the last service operation: what it did and returned
    deleted,        \* paths DeleteFile removed from the inventory, not indexed since
    writer,         \* the goroutine inside CGoStore.Add: its position and arguments
    reader,         \* the goroutine inside CGoStore.Query: its position and locals
    tasks,          \* the goroutines the HTTP handlers run the indexing calls in
    arrays,         \* the backing arrays of the []float32 slices: reference -> floats
    slots,          \* InMemoryCache.store as Go holds it: key -> reference
    held,           \* the slices the cache's caller holds: given to Set, returned by Get
    lastGet,        \* the Get call made since the last Set, if any: key and result
    wasSet,         \* the vector each key was last Set to, as it was at the call
    embedder,       \* the embedding backend in use and the last Embed call made on it
    http,           \* the HTTP requests served so far: request, status, service call made
    config,         \* the last LoadConfig call: the environment it read and its result
    reqs,           \* two POST /index-file requests for one file, and the file
    stream,         \* a GetCompletionStream call: its position and its channel
    names,          \* a service over named files: its exclusion lists and inventory
    watch,          \* Watcher.Start: the events channel and the goroutines reading it
    graph           \* build_hnsw_graph: the graph under construction and its heaps

storeVars == <<store, heap, lastWrite, lastQuery>>
serviceVars == <<indexedData, cache, disk, lastOp, deleted>>
concVars == <<writer, reader, tasks>>
cacheVars == <<arrays, slots, held, lastGet, wasSet>>
moreVars == <<names, watch, graph>>
edgeVars == <<embedder, http, config, reqs, stream, names, watch, graph>>
vars == <<store, heap, lastWrite, lastQuery, indexedData, cache, disk, lastOp, deleted,
          writer, reader, tasks, arrays, slots, held, lastGet, wasSet, embedder,
          http, config, reqs, stream, names, watch, graph>>

\* ------------------------------------------------------------- the C heap

\* Addresses: three blocks are live at a time (data, vector structs, index).
Addr == 1..4

FreeBlock == [kind |-> "free"]

EmptyHeap == [a \in Addr |-> FreeBlock]

Live(h) == {a \in Addr : h[a].kind # "free"}

\* malloc: the lowest free address.
malloc(h) == CHOOSE a \in Addr : h[a].kind = "free" /\ \A b \in Addr : h[b].kind = "free" => a <= b

free(h, a) == [h EXCEPT ![a] = FreeBlock]

\* --------------------------------------------------------- vector_search.c

\* Integer square root of Scale^2 * x: sqrtf(x) in 1/Scale units.
SqrtTable == [x \in 0..8 |-> CHOOSE r \in 0..(3 * Scale) : r * r <= Scale * Scale * x /\ (r + 1) * (r + 1) > Scale * Scale * x]

\* The same for an x past the table, by bisection.
RECURSIVE FloorSqrt(_, _, _)
FloorSqrt(y, lo, hi) ==
    IF lo >= hi THEN lo
    ELSE CHOOSE root \in {IF mid * mid <= y THEN FloorSqrt(y, mid, hi)
                                            ELSE FloorSqrt(y, lo, mid - 1) :
                             mid \in {(lo + hi + 1) \div 2}} : TRUE

sqrtf(x) ==
    IF x \in DOMAIN SqrtTable THEN SqrtTable[x]
    ELSE CHOOSE root \in {FloorSqrt(Scale * Scale * x, Scale * whole, Scale * (whole + 1)) :
                             whole \in {FloorSqrt(x, 0, x)}} : TRUE

RECURSIVE distance_squared(_, _, _)
distance_squared(a, b, i) ==
    IF i > Len(a) THEN 0
    ELSE (a[i] - b[i]) * (a[i] - b[i]) + distance_squared(a, b, i + 1)

calculate_euclidean_distance(vector_a, vector_b) ==
    IF Len(vector_a) # Len(vector_b) THEN FLT_MAX
    ELSE sqrtf(distance_squared(vector_a, vector_b, 1))

\* The vector the index's entry i (0-based) points at.
IndexVector(h, index, i) ==
    LET v == h[h[index].vectors].vs[i + 1]
    IN  SubSeq(h[v.data].floats, v.off + 1, v.off + v.len)

\* An insertion loop that compares with <=.
InsertionPositionOrEqual(distances, d, k) ==
    IF \E p \in 1..k : d <= distances[p]
    THEN CHOOSE p \in 1..k : d <= distances[p] /\ \A r \in 1..(p - 1) : ~(d <= distances[r])
    ELSE 0

\* The first insertion_position (1-based) whose distance is greater, 0 if none.
InsertionPosition(distances, d, k) ==
    IF \E p \in 1..k : d < distances[p]
    THEN CHOOSE p \in 1..k : d < distances[p] /\ \A r \in 1..(p - 1) : ~(d < distances[r])
    ELSE 0

\* The shift loop and the store at insertion_position, on one array.
ShiftNoShift(arr, pos, x, k) == [arr EXCEPT ![pos] = x]

ShiftInsert(arr, pos, x, k) ==
    [i \in 1..k |-> IF i < pos THEN arr[i] ELSE IF i = pos THEN x ELSE arr[i - 1]]

RECURSIVE knn_loop(_, _, _, _, _, _, _)
knn_loop(h, index, query, k, vector_index, neighbors, distances) ==
    IF vector_index >= h[index].len THEN neighbors
    ELSE LET d == calculate_euclidean_distance(query, IndexVector(h, index, vector_index))
             pos == InsertionPosition(distances, d, k)
         IN  IF pos = 0
             THEN knn_loop(h, index, query, k, vector_index + 1, neighbors, distances)
             ELSE knn_loop(h, index, query, k, vector_index + 1,
                           ShiftInsert(neighbors, pos, vector_index, k),
                           ShiftInsert(distances, pos, d, k))

\* Brute force: create_index never sets use_hnsw_optimization, so the store
\* always takes this path.  The result holds k ids, -1 where none was found.
knn_search(h, index, query, k) ==
    knn_loop(h, index, query, k, 0, [i \in 1..k |-> -1], [i \in 1..k |-> FLT_MAX])

create_index(h, vectors, vector_count) ==
    LET a == malloc(h)
    IN  [h |-> [h EXCEPT ![a] = [kind |-> "index", vectors |-> vectors, len |-> vector_count,
                                 hnsw_graph |-> NULL, use_hnsw_optimization |-> 0]],
         index |-> a]

free_index(h, index) == free(h, index)

\* ------------------------------------------------------- storage/bluge.go

NewVectorStore(dim) ==
    [index |-> NULL, docs |-> <<>>, dim |-> dim, cVectors |-> NULL, cData |-> NULL]

\* Close: frees the index, the vector structs and the data, and nils each.
CloseKeepIndex(s, h) ==
    LET h1 == IF s.index # NULL THEN free_index(h, s.index) ELSE h
        h2 == IF s.cVectors # NULL THEN free(h1, s.cVectors) ELSE h1
        h3 == IF s.cData # NULL THEN free(h2, s.cData) ELSE h2
    IN  [s |-> [s EXCEPT !.cVectors = NULL, !.cData = NULL], h |-> h3]

Close(s, h) ==
    LET h1 == IF s.index # NULL THEN free_index(h, s.index) ELSE h
        h2 == IF s.cVectors # NULL THEN free(h1, s.cVectors) ELSE h1
        h3 == IF s.cData # NULL THEN free(h2, s.cData) ELSE h2
    IN  [s |-> [s EXCEPT !.index = NULL, !.cVectors = NULL, !.cData = NULL], h |-> h3]

RECURSIVE Flatten(_)
Flatten(vectors) ==
    IF vectors = <<>> THEN <<>> ELSE Head(vectors) \o Flatten(Tail(vectors))

RECURSIVE Offsets(_, _)
Offsets(vectors, at) ==
    IF vectors = <<>> THEN <<>>
    ELSE <<at>> \o Offsets(Tail(vectors), at + Len(Head(vectors)))

\* Add: oom names the malloc that returns NULL ("none", "data" or "vecs").
\* Nothing compares a vector's length with s.dim.
Add(s, h, vectors, documents, oom) ==
    LET c == IF s.index # NULL THEN Close(s, h) ELSE [s |-> s, h |-> h]
        s1 == [c.s EXCEPT !.docs = documents]
        numVectors == Len(vectors)
    IN  IF numVectors = 0
        THEN [s |-> [s1 EXCEPT !.index = NULL], h |-> c.h, err |-> "nil"]
        ELSE IF oom = "data"
        THEN [s |-> s1, h |-> c.h, err |-> "error"]
        ELSE IF oom = "vecs"
        THEN [s |-> s1, h |-> c.h, err |-> "error"]
        ELSE LET cData == malloc(c.h)
                 h1 == [c.h EXCEPT ![cData] = [kind |-> "data", floats |-> Flatten(vectors)]]
                 cVectors == malloc(h1)
                 offs == Offsets(vectors, 0)
                 h2 == [h1 EXCEPT ![cVectors] =
                          [kind |-> "vecs",
                           vs |-> [i \in 1..numVectors |->
                                     [data |-> cData, off |-> offs[i], len |-> Len(vectors[i])]]]]
                 ci == create_index(h2, cVectors, numVectors)
             IN  [s |-> [s1 EXCEPT !.cData = cData, !.cVectors = cVectors, !.index = ci.index],
                  h |-> ci.h, err |-> "nil"]

\* The index block, its vector structs and their data are all allocated.
ValidIndex(h, index) ==
    /\ h[index].kind = "index"
    /\ h[h[index].vectors].kind = "vecs"
    /\ \A i \in 1..h[index].len :
          /\ i <= Len(h[h[index].vectors].vs)
          /\ h[h[h[index].vectors].vs[i].data].kind = "data"

\* Query: docs[neighbors[i]] panics on the -1 knn_search leaves where it
\* found no vector, and on an id past the documents.  A search through a
\* freed block is undefined behaviour: "undefined" stands for any outcome.
Query(s, h, vector, k) ==
    IF s.index = NULL
    THEN [err |-> "error", docs |-> <<>>, neighbors |-> <<>>]
    ELSE IF ~ValidIndex(h, s.index)
    THEN [err |-> "undefined", docs |-> <<>>, neighbors |-> <<>>]
    ELSE LET neighbors == knn_search(h, s.index, vector, k)
         IN  IF \E i \in 1..k : neighbors[i] < 0 \/ neighbors[i] >= Len(s.docs)
             THEN [err |-> "panic", docs |-> <<>>, neighbors |-> neighbors]
             ELSE [err |-> "nil", docs |-> [i \in 1..k |-> s.docs[neighbors[i] + 1]],
                   neighbors |-> neighbors]

\* ------------------------------------------------ SpecStore: the store alone

\* The lists an Add is given: up to MaxVecs vectors of one length, which is
\* the store's dimension or a wrong one.  A Query asks for up to MaxVecs + 1.
VectorLists == UNION {[1..n -> UnitVecs(Dim)] \cup [1..n -> {ShortVec}] : n \in 0..MaxVecs}

\* The most indexing goroutines the handlers have started and not seen end.
MaxTasks == 2

Tasks == 1..MaxTasks

\* A goroutine that is in no call.
Idle == [pc |-> "idle"]

\* NewCompletionService over a new store, before any snapshot file exists.
\* No graph is built yet.
NoGraph ==
    [pc |-> "new", vectors |-> << >>, nodes |-> << >>,
     entry_point_node_id |-> 0, maximum_layer_in_graph |-> 0,
     max_connections_per_node |-> 0, max_connections_layer_zero |-> 0,
     construction_search_width |-> 0,
     current_node_id |-> 0, current_search_node |-> 0, connection_layer |-> 0,
     layer_candidates |-> << >>, visited_nodes |-> << >>,
     selected_connections |-> << >>, connection_index |-> 0,
     blocks |-> {}, freed_not_live |-> {}]

InitService ==
    /\ indexedData = << >>
    /\ cache = << >>
    /\ disk = None
    /\ lastOp = None
    /\ deleted = {}
    /\ writer = Idle
    /\ reader = Idle
    /\ tasks = [t \in Tasks |-> Idle]
    /\ arrays = << >>
    /\ slots = << >>
    /\ held = {}
    /\ lastGet = None
    /\ wasSet = << >>
    /\ embedder = None
    /\ http = << >>
    /\ config = None
    /\ reqs = [file |-> 1, arrived |-> 0,
               g |-> [i \in {1, 2} |-> [pc |-> "none", chunks |-> << >>]]]
    /\ stream = [pc |-> "idle", closed |-> 0, sent |-> 0, late |-> FALSE]
    /\ names = [op |-> "NewCompletionService", indexedData |-> << >>, disk |-> None,
                ExcludedFiles |-> << >>, ExcludedExtensions |-> << >>]
    /\ watch = [pc |-> "new", sending |-> None, received |-> << >>]
    /\ graph = NoGraph

InitStore ==
    /\ store = NewVectorStore(Dim)
    /\ heap = EmptyHeap
    /\ lastWrite = None
    /\ lastQuery = None
    /\ InitService

\* An Add whose malloc fails copies no vector: one list per length stands for all.
OomLists == {[i \in 1..n |-> [j \in 1..Dim |-> 0]] : n \in 1..MaxVecs}

StoreAdd ==
    \E vectors \in VectorLists, oom \in {"none", "data", "vecs"} :
        /\ oom # "none" => vectors \in OomLists
        /\ LET documents == [i \in 1..Len(vectors) |-> DocNames[i]]
               r == Add(store, heap, vectors, documents, oom)
           IN  /\ store' = r.s
               /\ heap' = r.h
               /\ lastWrite' = [op |-> "add", vectors |-> vectors, documents |-> documents,
                                err |-> r.err]
        /\ lastQuery' = None
        /\ UNCHANGED <<serviceVars, concVars, cacheVars, edgeVars>>

StoreQuery ==
    \E vector \in QueryVecs, k \in 0..(MaxVecs + 1) :
        /\ lastQuery' = [op |-> "query", vector |-> vector, k |-> k,
                         res |-> Query(store, heap, vector, k)]
        /\ UNCHANGED <<store, heap, lastWrite>>
        /\ UNCHANGED <<serviceVars, concVars, cacheVars, edgeVars>>

StoreClose ==
    /\ LET r == Close(store, heap) IN store' = r.s /\ heap' = r.h
    /\ lastWrite' = [op |-> "close", held |-> store.index # NULL]
    /\ lastQuery' = None
    /\ UNCHANGED <<serviceVars, concVars, cacheVars, edgeVars>>

NextStore == StoreAdd \/ StoreQuery \/ StoreClose

SpecStore == InitStore /\ [][NextStore]_vars

\* ------------------------------------------------- claims on the store alone

\* The last write was an Add that returned nil for n >= 1 vectors, each of the
\* store's dimension, and the query made since has that dimension too.
FilledByAdd ==
    /\ lastWrite.op = "add"
    /\ lastWrite.err = "nil"
    /\ Len(lastWrite.vectors) >= 1
    /\ \A i \in 1..Len(lastWrite.vectors) : Len(lastWrite.vectors[i]) = store.dim
    /\ lastQuery.op = "query"
    /\ Len(lastQuery.vector) = store.dim

QueryDistance(id) == calculate_euclidean_distance(lastQuery.vector, lastWrite.vectors[id + 1])

\* The answer is k documents of k distinct added vectors, nearest first, and
\* no vector left out is strictly nearer than one returned.
NearestFirst(k) ==
    LET n == Len(lastWrite.vectors)
        res == lastQuery.res
    IN  /\ res.err = "nil"
        /\ Len(res.docs) = k
        /\ Len(res.neighbors) = k
        /\ \A i \in 1..k : res.neighbors[i] \in 0..(n - 1)
        /\ \A i, j \in 1..k : i # j => res.neighbors[i] # res.neighbors[j]
        /\ \A i \in 1..k : res.docs[i] = lastWrite.documents[res.neighbors[i] + 1]
        /\ \A i \in 1..(k - 1) : QueryDistance(res.neighbors[i]) <= QueryDistance(res.neighbors[i + 1])
        /\ \A id \in 0..(n - 1) :
              (\A i \in 1..k : res.neighbors[i] # id)
                  => \A i \in 1..k : QueryDistance(res.neighbors[i]) <= QueryDistance(id)

\* C5: after Add(vs, ds) of n >= 1 vectors of dimension D, Query(q, k) with
\* 1 <= k <= n and q of dimension D returns exactly k documents, ds[i] for k
\* distinct i, in non-decreasing distance from q, and no omitted vector is
\* strictly closer to q than a returned one.
C5_QueryReturnsKNearest ==
    (FilledByAdd /\ lastQuery.k \in 1..Len(lastWrite.vectors)) => NearestFirst(lastQuery.k)

\* C5's case: 2 of 3 vectors asked for, and the nearest is not the first added.
C5_Witness ==
    /\ FilledByAdd
    /\ Len(lastWrite.vectors) = 3
    /\ lastQuery.k = 2
    /\ lastQuery.res.err = "nil"
    /\ lastQuery.res.neighbors[1] = 2

\* C6: Query(q, k) on an index of n vectors, 0 < n < k, does not fail and
\* returns all n documents in ascending distance order.
C6_QueryFewerThanK ==
    (FilledByAdd /\ lastQuery.k > Len(lastWrite.vectors)) => NearestFirst(Len(lastWrite.vectors))

\* C7: Add returns an error whenever some supplied vector's length differs
\* from the store's dimension, so every vector the index holds has that
\* dimension.
C7_AddRejectsWrongDimension ==
    /\ (lastWrite.op = "add" /\ \E i \in 1..Len(lastWrite.vectors) : Len(lastWrite.vectors[i]) # store.dim)
           => lastWrite.err = "error"
    /\ (store.index # NULL /\ ValidIndex(heap, store.index))
           => \A i \in 0..(heap[store.index].len - 1) : Len(IndexVector(heap, store.index, i)) = store.dim

\* The index is empty (never filled, or last filled by an Add of no vectors)
\* or has been closed.
EmptyOrClosed ==
    \/ lastWrite.op = "none"
    \/ lastWrite.op = "close"
    \/ lastWrite.op = "add" /\ Len(lastWrite.vectors) = 0

\* C8: Query on an empty or a closed index returns an error and no documents.
C8_QueryOnEmptyOrClosedFails ==
    (lastQuery.op = "query" /\ EmptyOrClosed)
        => (lastQuery.res.err = "error" /\ lastQuery.res.docs = <<>>)

\* C8's case: a Query for k >= 1 after the Close of a store that held an index.
C8_Witness ==
    /\ lastQuery.op = "query"
    /\ lastQuery.k >= 1
    /\ lastWrite.op = "close"
    /\ lastWrite.held
    /\ lastQuery.res.err = "error"

\* The returned id at position i ranks before id: nearer, or as near and added earlier.
RanksBefore(a, b) ==
    \/ QueryDistance(a) < QueryDistance(b)
    \/ QueryDistance(a) = QueryDistance(b) /\ a < b

\* spec 8, scenario 1, in tenths: vs = [[0,0],[1,0],[0,1],[10,10]], q = [0.1,0.1].
ExampleVectors == << <<0, 0>>, <<10, 0>>, <<0, 10>>, <<100, 100>> >>

ExampleQuery == <<1, 1>>

ExampleAnswer ==
    LET r == Add(NewVectorStore(Dim), EmptyHeap, ExampleVectors, <<"a", "b", "c", "d">>, "none")
    IN  Query(r.s, r.h, ExampleQuery, 2)

\* C24: in brute-force Query, of two stored vectors at equal distance from the
\* query the one added earlier is ranked first (and is the one kept when only
\* one fits), so the answer is fixed by the stored vectors in order, the query
\* and k; Query([0.1,0.1], 2) over [[0,0],[1,0],[0,1],[10,10]] returns [a, b].
C24_EarlierWinsTies ==
    /\ (FilledByAdd /\ lastQuery.k \in 1..Len(lastWrite.vectors)) =>
          LET k == lastQuery.k
              res == lastQuery.res
          IN  /\ res.err = "nil"
              /\ \A i, j \in 1..k : i < j => RanksBefore(res.neighbors[i], res.neighbors[j])
              /\ \A id \in 0..(Len(lastWrite.vectors) - 1) :
                    (\A i \in 1..k : res.neighbors[i] # id)
                        => \A i \in 1..k : RanksBefore(res.neighbors[i], id)
    /\ ExampleAnswer.err = "nil"
    /\ ExampleAnswer.docs = <<"a", "b">>

\* C24's case: three vectors, the two added last at equal distance from the
\* query and nearer than the first; both are returned, the earlier one first.
C24_Witness ==
    /\ FilledByAdd
    /\ Len(lastWrite.vectors) = 3
    /\ lastQuery.k = 2
    /\ lastQuery.res.err = "nil"
    /\ lastQuery.res.neighbors = <<1, 2>>
    /\ QueryDistance(1) = QueryDistance(2)
    /\ QueryDistance(1) < QueryDistance(0)

\* ----------------------------------------------- the workspace and embedder

\* The files of the workspace root, in the order filepath.Walk visits them.
WalkOrder == <<"f1", "f2">>

Paths == {WalkOrder[i] : i \in 1..Len(WalkOrder)}

\* The declarations of each file: the Content of the chunks the chunker makes.
Body(path) == IF path = "f1" THEN <<"a", "b", "c">> ELSE <<"d", "e">>

\* The texts GetCompletion is asked to complete.
QueryTexts == {"e"}

\* The embedder's vector for a text, when its call succeeds.
Embed(text) ==
    CASE text = "a" -> <<0, 0>>
      [] text = "b" -> <<1, 0>>
      [] text = "c" -> <<0, 1>>
      [] text = "d" -> <<1, 0>>
      [] OTHER -> <<1, 1>>

\* One chunk per declaration; a file that cannot be read is an error.
\* (StartLine and EndLine are carried by the code and read by nothing here.)
ChunkFileWithTreeSitter(filePath, readable) ==
    IF ~readable
    THEN [err |-> "error", chunks |-> <<>>]
    ELSE [err |-> "nil",
          chunks |-> [i \in 1..Len(Body(filePath)) |->
                        [FilePath |-> filePath, Content |-> Body(filePath)[i]]]]

\* ------------------------------------------------------- cache/cache_key.go

\* The SHA-256 of "path:content", taken as collision free: the hashed text.
ComputeKey(filePath, chunkContent) == filePath \o ":" \o chunkContent

\* ------------------------------------------------------ completer/service.go

MapDelete(m, key) == [k \in DOMAIN m \ {key} |-> m[k]]

MapSet(m, key, value) == [k \in DOMAIN m \cup {key} |-> IF k = key THEN value ELSE m[k]]

\* The orders a range over a Go map may visit the keys S in.
Orders(S) == {o \in [1..Cardinality(S) -> S] : \A i, j \in 1..Cardinality(S) : i # j => o[i] # o[j]}

\* for _, list := range s.indexedData { allChunks = append(allChunks, list...) }
RECURSIVE FlattenChunks(_, _, _)
FlattenChunks(inv, order, i) ==
    IF i > Len(order) THEN <<>>
    ELSE inv[order[i]] \o FlattenChunks(inv, order, i + 1)

\* InMemoryCache.Set, on values: Set and Get copy the slice, so an entry is
\* the vector that was set (SpecCache models the slices themselves).
CacheSetDropsEntry(c, key, embedding) == c

CacheSet(c, key, embedding) == MapSet(c, key, embedding)

\* The embedding loop of reIndex and of SaveIndex: a cached vector is taken,
\* a missing one is embedded and cached, a chunk whose embed call fails is
\* skipped.  down: the files whose chunks' embed calls fail in this run.
RECURSIVE EmbedLoop(_, _, _, _)
EmbedLoop(chunks, c, down, i) ==
    IF i > Len(chunks) THEN [cache |-> c, embeddings |-> <<>>, documents |-> <<>>, calls |-> 0]
    ELSE LET chunk == chunks[i]
             key == ComputeKey(chunk.FilePath, chunk.Content)
         IN  IF key \in DOMAIN c
             THEN LET r == EmbedLoop(chunks, c, down, i + 1)
                  IN  [r EXCEPT !.embeddings = <<c[key]>> \o @, !.documents = <<chunk.Content>> \o @]
             ELSE IF chunk.FilePath \in down
             THEN LET r == EmbedLoop(chunks, c, down, i + 1)
                  IN  [r EXCEPT !.calls = @ + 1]
             ELSE LET r == EmbedLoop(chunks, CacheSet(c, key, Embed(chunk.Content)), down, i + 1)
                  IN  [r EXCEPT !.embeddings = <<Embed(chunk.Content)>> \o @,
                                !.documents = <<chunk.Content>> \o @, !.calls = @ + 1]

\* reIndex: rebuild "cleared" is Add(nil, nil) for an empty inventory,
\* "skipped" the return without Add when no embedding was made, "added" the
\* Add of the surviving arrays.
reIndex(inv, c, s, h, order, down, oom) ==
    LET allChunks == FlattenChunks(inv, order, 1)
    IN  IF Len(allChunks) = 0
        THEN LET r == Add(s, h, <<>>, <<>>, "none")
             IN  [cache |-> c, s |-> r.s, h |-> r.h, err |-> r.err, rebuild |-> "cleared",
                  documents |-> <<>>, calls |-> 0]
        ELSE LET l == EmbedLoop(allChunks, c, down, 1)
             IN  IF Len(l.embeddings) = 0
                 THEN [cache |-> l.cache, s |-> s, h |-> h, err |-> "nil", rebuild |-> "skipped",
                       documents |-> <<>>, calls |-> l.calls]
                 ELSE LET r == Add(s, h, l.embeddings, l.documents, oom)
                      IN  [cache |-> l.cache, s |-> r.s, h |-> r.h, err |-> r.err,
                           rebuild |-> "added", documents |-> l.documents, calls |-> l.calls]

\* SaveIndex: embeds the inventory again (cache first), then writes the file;
\* created: whether os.Create succeeds.  encoding/gob keeps the three fields.
SaveIndex(inv, c, d, order, down, created) ==
    LET l == EmbedLoop(FlattenChunks(inv, order, 1), c, down, 1)
    IN  IF ~created
        THEN [cache |-> l.cache, disk |-> d, err |-> "error", calls |-> l.calls]
        ELSE [cache |-> l.cache, err |-> "nil", calls |-> l.calls,
              disk |-> [op |-> "snapshot", IndexedData |-> inv,
                        Embeddings |-> l.embeddings, Documents |-> l.documents]]

\* LoadIndex: the inventory is replaced before Add runs.
LoadIndex(d, s, h, oom) ==
    LET r == Add(s, h, d.Embeddings, d.Documents, oom)
    IN  [inv |-> d.IndexedData, s |-> r.s, h |-> r.h, err |-> r.err]

\* The chunks the walk stages: each readable file's, in walk order.
RECURSIVE WalkChunks(_, _)
WalkChunks(unreadable, i) ==
    IF i > Len(WalkOrder) THEN <<>>
    ELSE ChunkFileWithTreeSitter(WalkOrder[i], WalkOrder[i] \notin unreadable).chunks
             \o WalkChunks(unreadable, i + 1)

\* s.indexedData[chunk.FilePath] = append(s.indexedData[chunk.FilePath], chunk)
RECURSIVE Stage(_, _, _)
Stage(inv, chunks, i) ==
    IF i > Len(chunks) THEN inv
    ELSE LET path == chunks[i].FilePath
             old == IF path \in DOMAIN inv THEN inv[path] ELSE <<>>
         IN  Stage(MapSet(inv, path, Append(old, chunks[i])), chunks, i + 1)

\* The files with a chunk that is in no cache: the only ones whose embed
\* calls a run makes.
Uncached(inv, c) ==
    {p \in DOMAIN inv : \E i \in 1..Len(inv[p]) : ComputeKey(p, inv[p][i].Content) \notin DOMAIN c}

\* The most copies of a file's chunks the inventory is let to hold.
MaxCopies == 2

\* The number of chunks the inventory holds.
RECURSIVE ChunkCount(_)
ChunkCount(inv) ==
    IF DOMAIN inv = {} THEN 0
    ELSE LET p == CHOOSE q \in DOMAIN inv : TRUE
         IN  Len(inv[p]) + ChunkCount(MapDelete(inv, p))

\* The operation before embedded every chunk of the inventory in its rebuild,
\* and this one leaves the inventory, inv, as it found it.
Warm(inv) ==
    /\ lastOp.op \in {"IndexDirectory", "IndexFile", "DeleteFile"}
    /\ lastOp.rebuild = "added"
    /\ Len(lastOp.survivors) = ChunkCount(indexedData)
    /\ inv = indexedData

\* What an operation did: its result, what its rebuild did with the index
\* ("none": no rebuild ran) and whether it wrote the snapshot file.
\* survivors: the documents its embedding loop kept; calls: the embed calls
\* it made; warm: whether it ran as Warm says.
OpRecord(op, path, err, r, wrote, calls, inv) ==
    [op |-> op, path |-> path, err |-> err, rebuild |-> r.rebuild,
     survivors |-> r.documents, wrote |-> wrote, calls |-> calls, warm |-> Warm(inv)]

NoRebuild == [rebuild |-> "none", documents |-> <<>>]

\* In the actions, \E r \in {e} names the value of e.

\* IndexDirectory with the snapshot file present: LoadIndex and return.
IndexDirectoryLoad ==
    /\ disk # None
    /\ \E oom \in {"none", "data"} :
         \E r \in {LoadIndex(disk, store, heap, oom)} :
             /\ indexedData' = r.inv
             /\ store' = r.s
             /\ heap' = r.h
             /\ lastOp' = OpRecord("LoadIndex", "", r.err, NoRebuild, FALSE, 0, r.inv)
             /\ deleted' = deleted \ DOMAIN r.inv
    /\ UNCHANGED <<cache, disk, lastWrite, lastQuery, concVars, cacheVars, edgeVars>>

\* IndexDirectory with no snapshot file: walk, stage, reIndex, SaveIndex.
IndexDirectoryWalk ==
    /\ disk = None
    /\ \E unreadable \in SUBSET Paths :
         \E inv \in {Stage(indexedData, WalkChunks(unreadable, 1), 1)} :
             /\ \A p \in DOMAIN inv : Len(inv[p]) <= MaxCopies * Len(Body(p))
             /\ \E order \in Orders(DOMAIN inv), down \in SUBSET Uncached(inv, cache),
                   oom \in {"none", "data"} :
                  \E r \in {reIndex(inv, cache, store, heap, order, down, oom)} :
                      /\ indexedData' = inv
                      /\ store' = r.s
                      /\ heap' = r.h
                      /\ deleted' = deleted \ DOMAIN inv
                      /\ IF r.err # "nil"
                         THEN /\ cache' = r.cache
                              /\ lastOp' = OpRecord("IndexDirectory", "", "error", r, FALSE, r.calls, inv)
                              /\ UNCHANGED disk
                         ELSE \E order2 \in Orders(DOMAIN inv),
                                 down2 \in SUBSET Uncached(inv, r.cache), created \in BOOLEAN :
                                \E w \in {SaveIndex(inv, r.cache, disk, order2, down2, created)} :
                                    /\ cache' = w.cache
                                    /\ disk' = w.disk
                                    /\ lastOp' = OpRecord("IndexDirectory", "", "nil", r, w.err = "nil",
                                                         r.calls + w.calls, inv)
    /\ UNCHANGED <<lastWrite, lastQuery, concVars, cacheVars, edgeVars>>

\* IndexFile: the path's entry is deleted before the file is chunked.
IndexFile ==
    /\ \E path \in Paths, readable \in BOOLEAN :
         LET inv0 == MapDelete(indexedData, path)
             ch == ChunkFileWithTreeSitter(path, readable)
         IN  IF ch.err # "nil"
             THEN /\ indexedData' = inv0
                  /\ lastOp' = OpRecord("IndexFile", path, "error", NoRebuild, FALSE, 0, inv0)
                  /\ UNCHANGED <<cache, store, heap, deleted>>
             ELSE \E inv \in {MapSet(inv0, path, ch.chunks)} :
                      \E order \in Orders(DOMAIN inv), down \in SUBSET Uncached(inv, cache),
                         oom \in {"none", "data"} :
                        \E r \in {reIndex(inv, cache, store, heap, order, down, oom)} :
                            /\ indexedData' = inv
                            /\ cache' = r.cache
                            /\ store' = r.s
                            /\ heap' = r.h
                            /\ deleted' = deleted \ {path}
                            /\ lastOp' = OpRecord("IndexFile", path, r.err, r, FALSE, r.calls, inv)
    /\ UNCHANGED <<disk, lastWrite, lastQuery, concVars, cacheVars, edgeVars>>

\* DeleteFile: nothing to do for a path the inventory does not hold.
DeleteFile ==
    /\ \E path \in Paths :
         IF path \notin DOMAIN indexedData
         THEN /\ lastOp' = OpRecord("DeleteFile", path, "nil", NoRebuild, FALSE, 0, indexedData)
              /\ UNCHANGED <<indexedData, cache, store, heap, deleted>>
         ELSE \E inv \in {MapDelete(indexedData, path)} :
                  \E order \in Orders(DOMAIN inv), down \in SUBSET Uncached(inv, cache),
                     oom \in {"none", "data"} :
                    \E r \in {reIndex(inv, cache, store, heap, order, down, oom)} :
                        /\ indexedData' = inv
                        /\ cache' = r.cache
                        /\ store' = r.s
                        /\ heap' = r.h
                        /\ deleted' = deleted \cup {path}
                        /\ lastOp' = OpRecord("DeleteFile", path, r.err, r, FALSE, r.calls, inv)
    /\ UNCHANGED <<disk, lastWrite, lastQuery, concVars, cacheVars, edgeVars>>

\* GetCompletion: embed the text, Query for TopK, prompt the LLM.  The
\* handler's recovery turns Query's panic into a failed request.
GetCompletion ==
    /\ \E content \in QueryTexts, embedded \in BOOLEAN, completed \in BOOLEAN :
         IF ~embedded
         THEN lastOp' = [op |-> "GetCompletion", content |-> content,
                         err |-> "embed", similarDocs |-> <<>>]
         ELSE \E q \in {Query(store, heap, Embed(content), TopK)} :
                  lastOp' = [op |-> "GetCompletion", content |-> content,
                             err |-> IF q.err = "error" THEN "query"
                                     ELSE IF q.err # "nil" THEN q.err
                                     ELSE IF completed THEN "nil" ELSE "llm",
                             similarDocs |-> q.docs]
    /\ UNCHANGED <<store, heap, lastWrite, lastQuery, indexedData, cache, disk, deleted, concVars, cacheVars, edgeVars>>

\* The process ends and is started again: a new store, service and cache;
\* the snapshot file stays.
Restart ==
    /\ store' = NewVectorStore(Dim)
    /\ heap' = EmptyHeap
    /\ indexedData' = << >>
    /\ cache' = << >>
    /\ lastOp' = OpRecord("Restart", "", "nil", NoRebuild, FALSE, 0, << >>)
    /\ deleted' = {}
    /\ UNCHANGED <<disk, lastWrite, lastQuery, concVars, cacheVars, edgeVars>>

Init == InitStore

Next ==
    \/ IndexDirectoryLoad
    \/ IndexDirectoryWalk
    \/ IndexFile
    \/ DeleteFile
    \/ GetCompletion
    \/ Restart

Spec == Init /\ [][Next]_vars

\* ---------------------------------------------------- claims on the service

IndexingOps == {"IndexDirectory", "LoadIndex", "IndexFile", "DeleteFile"}

\* The (vector, document) pairs the index holds, in index order.
IndexPairs(s, h) ==
    IF s.index = NULL \/ ~ValidIndex(h, s.index) THEN <<>>
    ELSE [i \in 1..h[s.index].len |->
            <<IndexVector(h, s.index, i - 1), IF i <= Len(s.docs) THEN s.docs[i] ELSE "">>]

\* The pair each chunk of the inventory stands for, file by file.
InventoryPairs(inv) ==
    LET chunks == FlattenChunks(inv, CHOOSE o \in Orders(DOMAIN inv) : TRUE, 1)
    IN  [i \in 1..Len(chunks) |-> <<Embed(chunks[i].Content), chunks[i].Content>>]

Count(seq, x) == Cardinality({i \in 1..Len(seq) : seq[i] = x})

Range(seq) == {seq[i] : i \in 1..Len(seq)}

SameBag(a, b) == \A x \in Range(a) \cup Range(b) : Count(a, x) = Count(b, x)

\* The last Add stored its documents and then failed to allocate: the one
\* failure that is neither a chunking nor an embedding failure.
AddRanOutOfMemory == store.index = NULL /\ store.docs # <<>>

\* C1: after every completed IndexDirectory, IndexFile or DeleteFile call,
\* whatever chunking or embedding failures it met, the index holds one
\* vector+document pair for each chunk of the inventory and no other pair.
C1_IndexMatchesInventory ==
    (lastOp.op \in IndexingOps /\ ~AddRanOutOfMemory)
        => SameBag(IndexPairs(store, heap), InventoryPairs(indexedData))

\* The contents of the chunks of the files DeleteFile removed and nothing
\* has indexed since.
DeletedContents == UNION {Range(Body(p)) : p \in deleted}

\* C4: once DeleteFile(f) has returned, and until f is indexed again, no
\* Query made by GetCompletion returns a document of a chunk of f.
C4_NoDeletedDocumentReturned ==
    lastOp.op = "GetCompletion"
        => \A i \in 1..Len(lastOp.similarDocs) : lastOp.similarDocs[i] \notin DeletedContents

\* C9: a rebuild calls Add with the arrays of the chunks whose embed call
\* succeeded, and when none is left (empty inventory, or every embed call
\* failed) the index is cleared, so that a Query fails.
C9_RebuildKeepsSurvivorsOrClears ==
    (lastOp.op \in IndexingOps /\ lastOp.rebuild # "none")
        => IF lastOp.survivors = <<>>
           THEN /\ store.index = NULL
                /\ \A q \in QueryVecs, k \in 1..TopK : Query(store, heap, q, k).err = "error"
           ELSE lastOp.err = "nil"
                    => IndexPairs(store, heap)
                         = [i \in 1..Len(lastOp.survivors) |->
                              <<Embed(lastOp.survivors[i]), lastOp.survivors[i]>>]

\* What a new service holds after LoadIndex of the file that SaveIndex writes
\* from inventory inv and cache c, and whether it is equivalent to (inv, s, h):
\* the same inventory and the same answer to every query.
RoundTripEquivalent(inv, c, s, h, order, down) ==
    LET w == SaveIndex(inv, c, None, order, down, TRUE)
        l == LoadIndex(w.disk, NewVectorStore(Dim), EmptyHeap, "none")
    IN  /\ l.err = "nil"
        /\ l.inv = inv
        /\ \A q \in QueryVecs, k \in 1..TopK :
              LET a == Query(l.s, l.h, q, k)
                  b == Query(s, h, q, k)
              IN  a.err = b.err /\ a.docs = b.docs

\* C10: in every state S that indexing operations reach, SaveIndex followed
\* by LoadIndex in a new service gives the inventory of S and, for every
\* query vector, the Query answer of S.
C10_SnapshotRoundTrip ==
    (lastOp.op \in IndexingOps /\ ~AddRanOutOfMemory)
        => \A order \in Orders(DOMAIN indexedData), down \in SUBSET Uncached(indexedData, cache) :
              RoundTripEquivalent(indexedData, cache, store, heap, order, down)

\* ------------------------------- SpecAddQuery: Add and Query in two goroutines

\* CGoStore has no lock: the statements of Add and of Query interleave.

\* The arguments of the Adds: two lists of the same vectors in opposite
\* orders, and the empty list.
RaceLists ==
    { [vectors |-> <<>>, documents |-> <<>>],
      [vectors |-> << <<0, 0>>, <<1, 1>> >>, documents |-> <<"a1", "a2">>],
      [vectors |-> << <<1, 1>>, <<0, 0>> >>, documents |-> <<"b1", "b2">>] }

Answer(s, h, vector, k) ==
    LET r == Query(s, h, vector, k) IN [err |-> r.err, docs |-> r.docs]

\* What a Query may answer when it overlaps the Add of (vectors, documents)
\* to the store (s, h): from the contents before it or from those after it.
AtomicAnswers(s, h, vectors, documents, vector, k) ==
    LET r == Add(s, h, vectors, documents, "none")
    IN  {Answer(s, h, vector, k), Answer(r.s, r.h, vector, k)}

\* if s.index != nil { s.Close() }
AddClose ==
    /\ writer.pc = "idle"
    /\ \E l \in RaceLists :
         \E c \in {IF store.index # NULL THEN Close(store, heap) ELSE [s |-> store, h |-> heap]} :
             /\ store' = c.s
             /\ heap' = c.h
             /\ writer' = [pc |-> "docs", vectors |-> l.vectors, documents |-> l.documents,
                           before |-> [s |-> store, h |-> heap]]
             /\ reader' = IF reader.pc \in {"search", "docs"}
                          THEN [reader EXCEPT !.allowed =
                                   @ \cup AtomicAnswers(store, heap, l.vectors, l.documents,
                                                        reader.vector, reader.k)]
                          ELSE reader
    /\ UNCHANGED <<tasks, lastWrite, lastQuery, serviceVars, cacheVars, edgeVars>>

\* s.docs = documents; an empty list ends the call with a nil index.
AddDocs ==
    /\ writer.pc = "docs"
    /\ store' = [store EXCEPT !.docs = writer.documents,
                              !.index = IF Len(writer.vectors) = 0 THEN NULL ELSE @]
    /\ writer' = IF Len(writer.vectors) = 0 THEN Idle ELSE [writer EXCEPT !.pc = "alloc"]
    /\ UNCHANGED <<heap, reader, tasks, lastWrite, lastQuery, serviceVars, cacheVars, edgeVars>>

\* The two mallocs, the copy loop and s.index = create_index(...).
AddAlloc ==
    /\ writer.pc = "alloc"
    /\ \E r \in {Add(store, heap, writer.vectors, writer.documents, "none")} :
           store' = r.s /\ heap' = r.h
    /\ writer' = Idle
    /\ UNCHANGED <<reader, tasks, lastWrite, lastQuery, serviceVars, cacheVars, edgeVars>>

\* if s.index == nil { return error }
QueryCheck ==
    /\ reader.pc = "idle"
    /\ \E vector \in {<<0, 0>>, <<1, 1>>}, k \in 1..2 :
         reader' = [pc |-> IF store.index = NULL THEN "done" ELSE "search",
                    vector |-> vector, k |-> k, neighbors |-> <<>>,
                    res |-> [err |-> "error", docs |-> <<>>],
                    allowed |-> IF writer.pc = "idle"
                                THEN {Answer(store, heap, vector, k)}
                                ELSE AtomicAnswers(writer.before.s, writer.before.h,
                                                   writer.vectors, writer.documents,
                                                   vector, k)]
    /\ UNCHANGED <<store, heap, writer, tasks, lastWrite, lastQuery, serviceVars, cacheVars, edgeVars>>

\* C.knn_search(s.index, ...): s.index is read again; the search of a nil
\* or freed index is undefined behaviour.
QuerySearch ==
    /\ reader.pc = "search"
    /\ reader' = IF store.index = NULL \/ ~ValidIndex(heap, store.index)
                 THEN [reader EXCEPT !.pc = "done", !.res = [err |-> "undefined", docs |-> <<>>]]
                 ELSE [reader EXCEPT !.pc = "docs",
                          !.neighbors = knn_search(heap, store.index, reader.vector, reader.k)]
    /\ UNCHANGED <<store, heap, writer, tasks, lastWrite, lastQuery, serviceVars, cacheVars, edgeVars>>

\* results[i] = s.docs[neighbors[i]]
QueryDocs ==
    /\ reader.pc = "docs"
    /\ reader' = IF \E i \in 1..reader.k :
                       reader.neighbors[i] < 0 \/ reader.neighbors[i] >= Len(store.docs)
                 THEN [reader EXCEPT !.pc = "done", !.res = [err |-> "panic", docs |-> <<>>]]
                 ELSE [reader EXCEPT !.pc = "done",
                          !.res = [err |-> "nil",
                                   docs |-> [i \in 1..reader.k |->
                                               store.docs[reader.neighbors[i] + 1]]]]
    /\ UNCHANGED <<store, heap, writer, tasks, lastWrite, lastQuery, serviceVars, cacheVars, edgeVars>>

QueryReturn ==
    /\ reader.pc = "done"
    /\ reader' = Idle
    /\ UNCHANGED <<store, heap, writer, tasks, lastWrite, lastQuery, serviceVars, cacheVars, edgeVars>>

NextAddQuery ==
    \/ AddClose
    \/ AddDocs
    \/ AddAlloc
    \/ QueryCheck
    \/ QuerySearch
    \/ QueryDocs
    \/ QueryReturn

SpecAddQuery == InitStore /\ [][NextAddQuery]_vars

\* C2: a Query that runs while Add runs answers from the complete contents
\* before the Add or from the complete contents after it; it never pairs the
\* new documents with the old index nor searches storage Add has freed.
C2_QuerySeesAddAtomically ==
    reader.pc = "done" => reader.res \in reader.allowed

\* ------------------------------ SpecConc: the indexing calls of the handlers

\* POST /index and POST /index-file start a goroutine for each request and
\* DELETE /index-file runs DeleteFile in the request's own goroutine; the
\* service takes no lock.  A call's accesses to the inventory are its steps;
\* the embed calls succeed and Add is one step.

\* The goroutine moves on to pc; it ends when its call returns.
Step(t, pc) == IF pc = "idle" THEN [tasks EXCEPT ![t] = Idle] ELSE [tasks EXCEPT ![t].pc = pc]

\* POST /index: go IndexDirectory(path).
PostIndex(t) ==
    /\ tasks[t].pc = "idle"
    /\ tasks' = [tasks EXCEPT ![t] = [pc |-> "snapshot", op |-> "IndexDirectory", path |-> ""]]
    /\ UNCHANGED <<storeVars, serviceVars, writer, reader, cacheVars, edgeVars>>

\* POST /index-file: go IndexFile(path).
PostIndexFile(t) ==
    /\ tasks[t].pc = "idle"
    /\ \E path \in Paths :
         tasks' = [tasks EXCEPT ![t] = [pc |-> "delete", op |-> "IndexFile", path |-> path]]
    /\ UNCHANGED <<storeVars, serviceVars, writer, reader, cacheVars, edgeVars>>

\* DELETE /index-file: DeleteFile(path).
DeleteIndexFile(t) ==
    /\ tasks[t].pc = "idle"
    /\ \E path \in Paths :
         tasks' = [tasks EXCEPT ![t] = [pc |-> "check", op |-> "DeleteFile", path |-> path]]
    /\ UNCHANGED <<storeVars, serviceVars, writer, reader, cacheVars, edgeVars>>

\* IndexDirectory: the snapshot file is loaded if there is one; if not the
\* workspace is walked.
TaskSnapshot(t) ==
    /\ tasks[t].pc = "snapshot"
    /\ IF disk # None
       THEN \E r \in {LoadIndex(disk, store, heap, "none")} :
                /\ indexedData' = r.inv
                /\ store' = r.s
                /\ heap' = r.h
                /\ tasks' = Step(t, "idle")
       ELSE /\ tasks' = Step(t, "stage")
            /\ UNCHANGED <<indexedData, store, heap>>
    /\ UNCHANGED <<cache, disk, lastOp, deleted, lastWrite, lastQuery, writer, reader, cacheVars, edgeVars>>

\* IndexDirectory: the walked chunks are appended to the inventory.
TaskStage(t) ==
    /\ tasks[t].pc = "stage"
    /\ \E inv \in {Stage(indexedData, WalkChunks({}, 1), 1)} :
           /\ \A p \in DOMAIN inv : Len(inv[p]) <= MaxCopies * Len(Body(p))
           /\ indexedData' = inv
    /\ tasks' = Step(t, "rebuild")
    /\ UNCHANGED <<storeVars, cache, disk, lastOp, deleted, writer, reader, cacheVars, edgeVars>>

\* IndexFile: delete(s.indexedData, path).
TaskDelete(t) ==
    /\ tasks[t].pc = "delete"
    /\ indexedData' = MapDelete(indexedData, tasks[t].path)
    /\ tasks' = Step(t, "assign")
    /\ UNCHANGED <<storeVars, cache, disk, lastOp, deleted, writer, reader, cacheVars, edgeVars>>

\* IndexFile: chunk the file; s.indexedData[path] = chunks.
TaskAssign(t) ==
    /\ tasks[t].pc = "assign"
    /\ \E readable \in BOOLEAN :
         \E ch \in {ChunkFileWithTreeSitter(tasks[t].path, readable)} :
             IF ch.err # "nil"
             THEN tasks' = Step(t, "idle") /\ UNCHANGED indexedData
             ELSE /\ indexedData' = MapSet(indexedData, tasks[t].path, ch.chunks)
                  /\ tasks' = Step(t, "rebuild")
    /\ UNCHANGED <<storeVars, cache, disk, lastOp, deleted, writer, reader, cacheVars, edgeVars>>

\* DeleteFile: return if the path is not in the inventory, delete it if it is.
TaskCheck(t) ==
    /\ tasks[t].pc = "check"
    /\ IF tasks[t].path \notin DOMAIN indexedData
       THEN tasks' = Step(t, "idle") /\ UNCHANGED indexedData
       ELSE /\ indexedData' = MapDelete(indexedData, tasks[t].path)
            /\ tasks' = Step(t, "rebuild")
    /\ UNCHANGED <<storeVars, cache, disk, lastOp, deleted, writer, reader, cacheVars, edgeVars>>

\* reIndex: reads the whole inventory.
TaskRebuild(t) ==
    /\ tasks[t].pc = "rebuild"
    /\ \E order \in Orders(DOMAIN indexedData) :
         \E r \in {reIndex(indexedData, cache, store, heap, order, {}, "none")} :
             /\ cache' = r.cache
             /\ store' = r.s
             /\ heap' = r.h
    /\ tasks' = Step(t, IF tasks[t].op = "IndexDirectory" THEN "save" ELSE "idle")
    /\ UNCHANGED <<indexedData, disk, lastOp, deleted, lastWrite, lastQuery, writer, reader, cacheVars, edgeVars>>

\* IndexDirectory: SaveIndex reads the whole inventory again.
TaskSave(t) ==
    /\ tasks[t].pc = "save"
    /\ \E order \in Orders(DOMAIN indexedData) :
         \E w \in {SaveIndex(indexedData, cache, disk, order, {}, TRUE)} :
             cache' = w.cache /\ disk' = w.disk
    /\ tasks' = Step(t, "idle")
    /\ UNCHANGED <<storeVars, indexedData, lastOp, deleted, writer, reader, cacheVars, edgeVars>>

NextConc ==
    \E t \in Tasks :
        \/ PostIndex(t)
        \/ PostIndexFile(t)
        \/ DeleteIndexFile(t)
        \/ TaskSnapshot(t)
        \/ TaskStage(t)
        \/ TaskDelete(t)
        \/ TaskAssign(t)
        \/ TaskCheck(t)
        \/ TaskRebuild(t)
        \/ TaskSave(t)

SpecConc == InitStore /\ [][NextConc]_vars

\* A call that has accessed the inventory and has an access still to make.
InInventory(t) == tasks[t].pc \in {"assign", "rebuild", "save"}

\* C3: whatever way POST /index, POST /index-file and DELETE /index-file
\* requests interleave, at most one IndexDirectory, IndexFile or DeleteFile
\* execution is between its accesses to the inventory at a time.
C3_OneIndexingTaskAtATime ==
    Cardinality({t \in Tasks : InInventory(t)}) <= 1

\* ------------------------------------------------- the snapshot file (Spec)

\* The last operation rebuilt the index (Add was called and returned nil) and,
\* where it tried to write the snapshot file, the file could be created.
RebuiltAndSaved ==
    /\ lastOp.op \in {"IndexDirectory", "IndexFile", "DeleteFile"}
    /\ lastOp.rebuild \in {"added", "cleared"}
    /\ lastOp.err = "nil"
    /\ lastOp.op = "IndexDirectory" => lastOp.wrote

\* C11: after a rebuild started by IndexDirectory, IndexFile or DeleteFile has
\* completed, the snapshot file holds the inventory of that rebuild and an
\* embedding for each document the rebuild gave to Add.
C11_SnapshotWrittenAfterEachRebuild ==
    RebuiltAndSaved
        => /\ disk # None
           /\ disk.IndexedData = indexedData
           /\ \A x \in Range(lastOp.survivors) :
                 Count(disk.Documents, x) >= Count(lastOp.survivors, x)

\* ------------------------------------------------ the life of a chunk (Spec)

\* Some chunk that old holds for path is no longer held by new.
ChunksLost(old, new, path) ==
    /\ path \in DOMAIN old
    /\ \/ path \notin DOMAIN new
       \/ \E x \in Range(old[path]) : Count(old[path], x) > Count(new[path], x)

\* C12: within one process, a chunk leaves the inventory only in a DeleteFile
\* or an IndexFile of its own path, and the chunks of a path that DeleteFile
\* removed come back only by chunking the file again: no other operation, a
\* later IndexDirectory call in particular, removes or restores them.
C12_ChunksDestroyedOnlyByDeleteOrOverwrite ==
    [][lastOp'.op # "Restart"
          => \A p \in Paths :
                /\ ChunksLost(indexedData, indexedData', p)
                      => lastOp'.op \in {"DeleteFile", "IndexFile"} /\ lastOp'.path = p
                /\ (p \in deleted /\ p \in DOMAIN indexedData')
                      => lastOp'.op \in {"IndexFile", "IndexDirectory"}]_vars

\* ------------------------------------- recovery of IndexDirectory (Spec)

\* Each file of the inventory has the chunks the chunker makes of it, once.
EachFileOnce(inv) ==
    \A p \in DOMAIN inv : inv[p] = ChunkFileWithTreeSitter(p, TRUE).chunks

\* C13: when an IndexDirectory call has failed because Add returned an error,
\* the next IndexDirectory call, if it meets no failure itself, ends with each
\* file's chunks once in the inventory and with the index matching it.
C13_NextIndexDirectoryRecovers ==
    [][(/\ lastOp.op = "IndexDirectory" /\ lastOp.err = "error"
        /\ lastOp'.op = "IndexDirectory" /\ lastOp'.err = "nil"
        /\ lastOp'.rebuild = "added"
        /\ Len(lastOp'.survivors) = ChunkCount(indexedData'))
          => /\ EachFileOnce(indexedData')
             /\ SameBag(IndexPairs(store', heap'), InventoryPairs(indexedData'))]_vars

\* --------------------------------------------- the embedding cache (Spec)

\* C14: when a rebuild has embedded every chunk of the inventory, the rebuild
\* of the operation that follows, over the same inventory, makes no embed
\* call: every vector comes from the cache.
C14_WarmRebuildMakesNoEmbedCall ==
    (lastOp.op \in IndexingOps /\ lastOp.rebuild # "none" /\ lastOp.warm) => lastOp.calls = 0

\* A rebuild over an unchanged, fully embedded inventory has called Add.
C14_Witness ==
    /\ lastOp.op \in IndexingOps
    /\ lastOp.warm
    /\ lastOp.rebuild = "added"
    /\ lastOp.calls = 0
    /\ Len(lastOp.survivors) = ChunkCount(indexedData)
    /\ ChunkCount(indexedData) >= 2


(***************************************************************************)
(* SpecCache: the embedding cache (InMemoryCache) at the level of Go slice *)
(* references.  A []float32 is a reference to a backing array; the caller  *)
(* of the cache holds the slices it gave to Set and the ones Get returned, *)
(* and may write their elements at any time.                               *)
(***************************************************************************)
MaxArrays == 4
Refs == 1..MaxArrays
Keys == {"k1", "k2"}
Floats == {0, 1}
CacheVecs == [1..Dim -> Floats]

\* Go's garbage collector: an array no slice refers to is gone.
Collect(mem, st, hold) ==
    [r \in (DOMAIN mem) \cap (hold \cup {st[k] : k \in DOMAIN st}) |-> mem[r]]

\* make([]float32, len(val)) followed by copy(copied, val)
CopyOf(mem, ref) ==
    LET fresh == CHOOSE r \in Refs : r \notin DOMAIN mem
    IN  [ref |-> fresh,
         mem |-> [r \in (DOMAIN mem) \cup {fresh} |-> IF r = fresh THEN mem[ref] ELSE mem[r]]]

\* A Set that stores the caller's slice itself.
SetKeepsCallerSlice(st, mem, key, ref) ==
    [store |-> MapSet(st, key, ref), mem |-> mem]

\* InMemoryCache.Set: the stored slice is a copy of the one passed in.
Set(st, mem, key, ref) ==
    LET c == CopyOf(mem, ref)
    IN  [store |-> MapSet(st, key, c.ref), mem |-> c.mem]

\* InMemoryCache.Get: absent key -> (nil, false); else a copy of the stored slice.
Get(st, mem, key) ==
    IF key \notin DOMAIN st
    THEN [found |-> FALSE, ref |-> NULL, mem |-> mem]
    ELSE LET c == CopyOf(mem, st[key])
         IN  [found |-> TRUE, ref |-> c.ref, mem |-> c.mem]

CacheInit == InitStore

\* The caller builds a vector (an embedder's result).
CallerMakes ==
    \E v \in CacheVecs :
        /\ \E r \in Refs : r \notin DOMAIN arrays
        /\ LET fresh == CHOOSE r \in Refs : r \notin DOMAIN arrays
           IN  /\ arrays' = [r \in (DOMAIN arrays) \cup {fresh} |->
                                IF r = fresh THEN v ELSE arrays[r]]
               /\ held' = held \cup {fresh}
        /\ UNCHANGED <<slots, lastGet, wasSet>>
        /\ UNCHANGED <<storeVars, serviceVars, concVars, edgeVars>>

CacheSetCall ==
    \E key \in Keys, ref \in held :
        /\ \E r \in Refs : r \notin DOMAIN arrays
        /\ \E r \in {Set(slots, arrays, key, ref)} :
              /\ slots' = r.store
              /\ arrays' = Collect(r.mem, r.store, held)
        /\ wasSet' = MapSet(wasSet, key, arrays[ref])
        /\ lastGet' = None
        /\ UNCHANGED held
        /\ UNCHANGED <<storeVars, serviceVars, concVars, edgeVars>>

CacheGetCall ==
    \E key \in Keys :
        /\ \E r \in Refs : r \notin DOMAIN arrays
        /\ \E r \in {Get(slots, arrays, key)} :
              /\ arrays' = r.mem
              /\ held' = IF r.found THEN held \cup {r.ref} ELSE held
              /\ lastGet' = [op |-> "Get", key |-> key, found |-> r.found,
                             value |-> IF r.found THEN r.mem[r.ref] ELSE << >>]
        /\ UNCHANGED <<slots, wasSet>>
        /\ UNCHANGED <<storeVars, serviceVars, concVars, edgeVars>>

\* The caller writes an element of a slice it holds.
CallerMutates ==
    \E ref \in held, i \in 1..Dim, x \in Floats :
        /\ arrays[ref][i] # x
        /\ arrays' = [arrays EXCEPT ![ref][i] = x]
        /\ UNCHANGED <<slots, held, lastGet, wasSet>>
        /\ UNCHANGED <<storeVars, serviceVars, concVars, edgeVars>>

\* The caller lets go of a slice.
CallerDrops ==
    \E ref \in held :
        /\ held' = held \ {ref}
        /\ arrays' = Collect(arrays, slots, held \ {ref})
        /\ UNCHANGED <<slots, lastGet, wasSet>>
        /\ UNCHANGED <<storeVars, serviceVars, concVars, edgeVars>>

NextCache == CallerMakes \/ CacheSetCall \/ CacheGetCall \/ CallerMutates \/ CallerDrops
SpecCache == CacheInit /\ [][NextCache]_vars

\* C15: after Set(k, v), every Get(k) made before the next Set returns found
\* and a vector equal to v as it was at the Set, whatever the caller has
\* written since into the slice it passed or into slices earlier Gets
\* returned; a key that was Set is never found missing.
C15_GetReturnsWhatWasSet ==
    (lastGet.op = "Get" /\ lastGet.key \in DOMAIN wasSet)
        => (lastGet.found /\ lastGet.value = wasSet[lastGet.key])

\* A Get answered after the caller overwrote both the slice it had passed to
\* Set and a slice an earlier Get returned for the same key.
C15_Witness ==
    /\ lastGet.op = "Get"
    /\ lastGet.found
    /\ lastGet.key \in DOMAIN wasSet
    /\ \E r \in held : arrays[r] # wasSet[lastGet.key]
    /\ Cardinality(held) >= 2
    /\ Cardinality(DOMAIN slots) = 2


(***************************************************************************)
(* SpecEmbed: the three embedding backends behind EmbedderWithDimensions.  *)
(* A vector is modelled by its length, a backend's answer by its kind (a   *)
(* transport error, an answer holding no embedding, or one embedding of    *)
(* some length).                                                           *)
(***************************************************************************)
DimSmall == 1536
DimLarge == 3072
Providers == {"openai", "local", "huggingface"}
OpenAIModels == {"text-embedding-3-small", "text-embedding-3-large",
                 "text-embedding-ada-002", "custom-model"}
Lens == {0, 1, 2, DimSmall, DimLarge}
Responses == {[kind |-> "error", len |-> 0], [kind |-> "empty", len |-> 0]}
                 \cup {[kind |-> "vector", len |-> n] : n \in Lens}
Texts == {"", "x", "Hello world"}
EmbedOk(n) == [err |-> "nil", len |-> n]
EmbedErr(e) == [err |-> e, len |-> 0]

\* OpenAIClient.Embed: resp.Data[0].Embedding, whatever its length.
OpenAIClientEmbed(text, resp) ==
    CASE resp.kind = "error" -> EmbedErr("error")
      [] resp.kind = "empty" -> EmbedErr("panic")
      [] OTHER -> EmbedOk(resp.len)

\* LocalEmbedder.Embed: embedding[0], whatever its length.
LocalEmbed(e, text, resp) ==
    CASE resp.kind = "error" -> EmbedErr("error")
      [] resp.kind = "empty" -> EmbedErr("error")
      [] OTHER -> EmbedOk(resp.len)

\* HuggingFaceEmbedder.Embed: the only one that compares with e.dimensions.
HuggingFaceEmbed(e, text, resp) ==
    CASE text = "" -> EmbedErr("error")
      [] resp.kind = "error" -> EmbedErr("error")
      [] resp.kind = "empty" -> EmbedErr("error")
      [] resp.len # e.dimensions -> EmbedErr("dimension mismatch")
      [] OTHER -> EmbedOk(resp.len)

EmbedWithDimensions(e, text, resp) ==
    CASE e.provider = "openai" -> OpenAIClientEmbed(text, resp)
      [] e.provider = "local" -> LocalEmbed(e, text, resp)
      [] OTHER -> HuggingFaceEmbed(e, text, resp)

\* OpenAIEmbedderWrapper.GetDimensions is a table over the configured model;
\* the other two return the length detected at construction.
GetDimensions(e) ==
    IF e.provider = "openai"
    THEN (IF e.model = "text-embedding-3-large" THEN DimLarge ELSE DimSmall)
    ELSE e.dimensions

\* detectDimensions of LocalEmbedder and HuggingFaceEmbedder: 0 stands for an error.
detectDimensions(resp) ==
    IF resp.kind = "vector" /\ resp.len > 0 THEN resp.len ELSE 0

\* EmbedderFactory.CreateEmbedder
CreateEmbedder(provider, model, resp) ==
    IF provider = "openai"
    THEN [op |-> "embedder", provider |-> provider, model |-> model, dimensions |-> 0,
          last |-> None]
    ELSE IF detectDimensions(resp) = 0 THEN [op |-> "fatal"]
    ELSE [op |-> "embedder", provider |-> provider, model |-> "", 
          dimensions |-> detectDimensions(resp), last |-> None]

ValidateEmbedderConnection(e, resp) ==
    LET r == EmbedWithDimensions(e, "Hello world", resp)
    IN  r.err = "nil" /\ r.len = GetDimensions(e)

EmbedInit == InitStore

\* runServerWithAPIKey: create the embedder and validate it, or exit.
StartEmbedder ==
    \E provider \in Providers, model \in OpenAIModels, detect \in Responses, probe \in Responses :
        /\ embedder.op # "embedder"
        /\ \E e \in {CreateEmbedder(provider, model, detect)} :
              embedder' = IF e.op = "embedder" /\ ValidateEmbedderConnection(e, probe)
                          THEN e ELSE [op |-> "fatal"]
        /\ UNCHANGED <<storeVars, serviceVars, concVars, cacheVars, http, config, reqs, stream, moreVars>>

EmbedCall ==
    \E text \in Texts, resp \in Responses :
        /\ embedder.op = "embedder"
        /\ \E r \in {EmbedWithDimensions(embedder, text, resp)} :
              embedder' = [embedder EXCEPT !.last =
                              [op |-> "Embed", text |-> text, err |-> r.err, len |-> r.len,
                               response |-> resp]]
        /\ UNCHANGED <<storeVars, serviceVars, concVars, cacheVars, http, config, reqs, stream, moreVars>>

\* The process ends; a new one may start with another configuration.
StopEmbedder ==
    /\ embedder.op = "embedder"
    /\ embedder.last.op = "Embed"
    /\ embedder' = None
    /\ UNCHANGED <<storeVars, serviceVars, concVars, cacheVars, http, config, reqs, stream, moreVars>>

NextEmbed == StartEmbedder \/ EmbedCall \/ StopEmbedder
SpecEmbed == EmbedInit /\ [][NextEmbed]_vars

EmbedReturned ==
    /\ embedder.op = "embedder"
    /\ embedder.last.op = "Embed"

\* C16: for each of the three backends, an Embed call that returns
\* successfully returns a vector whose length is GetDimensions(), and a
\* backend answer holding a vector of any other length is returned as an error.
C16_EmbedLengthIsGetDimensions ==
    EmbedReturned =>
        /\ embedder.last.err = "nil" => embedder.last.len = GetDimensions(embedder)
        /\ (embedder.last.response.kind = "vector"
               /\ embedder.last.response.len # GetDimensions(embedder))
             => embedder.last.err # "nil"


(***************************************************************************)
(* SpecHttp: the gin handlers of POST /index-file, DELETE /index-file and  *)
(* GET /complete, from the request to the status code and the service call *)
(* the handler makes.                                                      *)
(***************************************************************************)
MaxRequests == 2
StatusOK == 200
StatusBadRequest == 400
StatusInternalServerError == 500

\* A JSON body: not JSON at all, or an object that may hold the field "path".
JsonBodies ==
    {[json |-> FALSE, hasPath |-> FALSE, path |-> ""],
     [json |-> TRUE, hasPath |-> FALSE, path |-> ""]}
        \cup {[json |-> TRUE, hasPath |-> TRUE, path |-> p] : p \in {"", "f1"}}

\* A query string: each of file_path and content absent or present with a value.
QueryParams == {[has |-> FALSE, value |-> ""], [has |-> TRUE, value |-> ""],
                [has |-> TRUE, value |-> "e"]}

\* c.ShouldBindJSON(&jsonBody) on struct { Path string `json:"path"` }: an
\* error for a body that is not JSON; an absent field leaves Path == "".
ShouldBindJSON(body) ==
    IF ~body.json THEN [err |-> "error", Path |-> ""]
    ELSE [err |-> "nil", Path |-> IF body.hasPath THEN body.path ELSE ""]

\* c.Query(key): "" for an absent parameter.
QueryParam(p) == IF p.has THEN p.value ELSE ""

NoCall == [op |-> "none", path |-> "", content |-> ""]
Reply(status, call) == [status |-> status, call |-> call]

\* router.POST("/index-file", ...)
PostIndexFileHandler(body) ==
    LET b == ShouldBindJSON(body)
    IN  IF b.err # "nil" THEN Reply(StatusBadRequest, NoCall)
        ELSE Reply(StatusOK, [op |-> "IndexFile", path |-> b.Path, content |-> ""])

\* router.DELETE("/index-file", ...); failed: DeleteFile returned an error.
DeleteIndexFileHandler(body, failed) ==
    LET b == ShouldBindJSON(body)
    IN  IF b.err # "nil" THEN Reply(StatusBadRequest, NoCall)
        ELSE Reply(IF failed THEN StatusInternalServerError ELSE StatusOK,
                      [op |-> "DeleteFile", path |-> b.Path, content |-> ""])

\* router.GET("/complete", ...); failed: GetCompletion returned an error.
GetCompleteHandler(filePathParam, contentParam, failed) ==
    LET filePath == QueryParam(filePathParam)
        content == QueryParam(contentParam)
    IN  IF filePath = "" \/ content = "" THEN Reply(StatusBadRequest, NoCall)
        ELSE Reply(IF failed THEN StatusInternalServerError ELSE StatusOK,
                      [op |-> "GetCompletion", path |-> filePath, content |-> content])

HttpInit == InitStore

\* The record of one request served.
Served(route, request, answer) ==
    [route |-> route, request |-> request, status |-> answer.status, call |-> answer.call]

ServePostIndexFile ==
    \E body \in JsonBodies :
        /\ Len(http) < MaxRequests
        /\ http' = Append(http, Served("POST /index-file", [body |-> body],
                                       PostIndexFileHandler(body)))
        /\ UNCHANGED <<storeVars, serviceVars, concVars, cacheVars, embedder, config, reqs, stream, moreVars>>

\* DeleteFile fails only when its rebuild does: not for a path that is not indexed.
ServeDeleteIndexFile ==
    \E body \in JsonBodies, failed \in BOOLEAN :
        /\ Len(http) < MaxRequests
        /\ failed => ShouldBindJSON(body).Path # ""
        /\ http' = Append(http, Served("DELETE /index-file", [body |-> body],
                                       DeleteIndexFileHandler(body, failed)))
        /\ UNCHANGED <<storeVars, serviceVars, concVars, cacheVars, embedder, config, reqs, stream, moreVars>>

ServeGetComplete ==
    \E f \in QueryParams, c \in QueryParams, failed \in BOOLEAN :
        /\ Len(http) < MaxRequests
        /\ http' = Append(http, Served("GET /complete", [file_path |-> f, content |-> c],
                                       GetCompleteHandler(f, c, failed)))
        /\ UNCHANGED <<storeVars, serviceVars, concVars, cacheVars, embedder, config, reqs, stream, moreVars>>

\* The server is restarted.
HttpRestart ==
    /\ Len(http) = MaxRequests
    /\ http' = << >>
    /\ UNCHANGED <<storeVars, serviceVars, concVars, cacheVars, embedder, config, reqs, stream, moreVars>>

NextHttp == ServePostIndexFile \/ ServeDeleteIndexFile \/ ServeGetComplete \/ HttpRestart
SpecHttp == HttpInit /\ [][NextHttp]_vars

\* The request is malformed or lacks a required field.
Invalid(h) ==
    IF h.route = "GET /complete"
    THEN ~h.request.file_path.has \/ ~h.request.content.has
    ELSE ~h.request.body.json \/ ~h.request.body.hasPath

\* C17: a request with a malformed body or without a required field (path
\* for POST and DELETE /index-file, file_path or content for GET /complete)
\* is answered with 400 and no service call is made for it.
C17_InvalidRequestGets400AndStartsNothing ==
    \A i \in 1..Len(http) :
        Invalid(http[i]) => (http[i].status = StatusBadRequest /\ http[i].call = NoCall)


(***************************************************************************)
(* SpecConfig: LoadConfig and Config.Validate over the environment         *)
(* variables that the validation reads.  An unset variable is "".          *)
(***************************************************************************)
DefaultTimeout == 30
DefaultMaxLength == 512
DefaultBatchSize == 1

Environments ==
    [EMBEDDING_PROVIDER : {"", "openai", "Local", "huggingface", "bogus"},
     OPENAI_API_KEY : {"", "sk-key"},
     LOCAL_EMBEDDING_SERVER_TYPE : {"", "Ollama", "bogus"},
     LOCAL_EMBEDDING_TIMEOUT : {"", "0", "-5", "10", "abc"},
     HUGGINGFACE_MAX_LENGTH : {"", "0", "10"},
     HUGGINGFACE_BATCH_SIZE : {"", "-5", "10"}]

\* strings.ToLower on the values above
ToLower(str) ==
    CASE str = "Local" -> "local"
      [] str = "Ollama" -> "ollama"
      [] str = "Notes.TXT" -> "notes.txt"
      [] str = "TXT" -> "txt"
      [] OTHER -> str

\* strconv.Atoi on the values above
Atoi(str) ==
    CASE str = "0" -> [err |-> "nil", n |-> 0]
      [] str = "-5" -> [err |-> "nil", n |-> 0 - 5]
      [] str = "10" -> [err |-> "nil", n |-> 10]
      [] OTHER -> [err |-> "syntax", n |-> 0]

\* if v, err := strconv.Atoi(str); err == nil && v > 0 { field = v }
PositiveOr(str, default) ==
    IF str # "" /\ Atoi(str).err = "nil" /\ Atoi(str).n > 0 THEN Atoi(str).n ELSE default

\* Config.Validate
Validate(c) ==
    CASE c.Provider = "openai" ->
            IF c.OpenAI.APIKey = "" THEN "OpenAI API key is required"
            ELSE IF c.OpenAI.Model = "" THEN "OpenAI model is required"
            ELSE "nil"
      [] c.Provider = "local" ->
            IF c.Local.ServerURL = "" THEN "local embedding server URL is required"
            ELSE IF c.Local.Timeout <= 0 THEN "local embedding timeout must be positive"
            ELSE IF c.Local.ServerType \notin {"tei", "ollama", "custom"}
                 THEN "invalid server type"
            ELSE "nil"
      [] c.Provider = "huggingface" ->
            IF c.HuggingFace.ModelID = "" THEN "HuggingFace model ID is required"
            ELSE IF c.HuggingFace.MaxLength <= 0 THEN "HuggingFace max length must be positive"
            ELSE IF c.HuggingFace.BatchSize <= 0 THEN "HuggingFace batch size must be positive"
            ELSE "nil"
      [] OTHER -> "unknown embedding provider"

\* LoadConfig: defaults, then the environment, then Validate.
LoadConfig(env) ==
    IF env.EMBEDDING_PROVIDER # ""
          /\ ToLower(env.EMBEDDING_PROVIDER) \notin {"openai", "local", "huggingface"}
    THEN [err |-> "invalid embedding provider", config |-> None]
    ELSE LET c == [Provider |-> IF env.EMBEDDING_PROVIDER # ""
                                THEN ToLower(env.EMBEDDING_PROVIDER) ELSE "openai",
                   OpenAI |-> [APIKey |-> env.OPENAI_API_KEY,
                               Model |-> "text-embedding-3-small"],
                   Local |-> [ServerURL |-> "http://localhost:8080",
                              Timeout |-> PositiveOr(env.LOCAL_EMBEDDING_TIMEOUT, DefaultTimeout),
                              ServerType |-> IF env.LOCAL_EMBEDDING_SERVER_TYPE # ""
                                             THEN ToLower(env.LOCAL_EMBEDDING_SERVER_TYPE)
                                             ELSE "tei"],
                   HuggingFace |-> [ModelID |-> "sentence-transformers/all-MiniLM-L6-v2",
                                    MaxLength |-> PositiveOr(env.HUGGINGFACE_MAX_LENGTH,
                                                             DefaultMaxLength),
                                    BatchSize |-> PositiveOr(env.HUGGINGFACE_BATCH_SIZE,
                                                             DefaultBatchSize)]]
         IN  IF Validate(c) # "nil"
             THEN [err |-> Validate(c), config |-> None]
             ELSE [err |-> "nil", config |-> c]

ConfigInit == InitStore

\* The server starts in some environment.
LoadConfigCall ==
    \E env \in Environments :
        /\ \E r \in {LoadConfig(env)} :
              config' = [op |-> "LoadConfig", env |-> env, err |-> r.err, config |-> r.config]
        /\ UNCHANGED <<storeVars, serviceVars, concVars, cacheVars, embedder, http, reqs, stream, moreVars>>

NextConfig == LoadConfigCall
SpecConfig == ConfigInit /\ [][NextConfig]_vars

NonPositive(str) == Atoi(str).err = "nil" /\ Atoi(str).n <= 0

\* The provider the environment selects (openai when unset).
Selected(env) ==
    IF env.EMBEDDING_PROVIDER = "" THEN "openai" ELSE ToLower(env.EMBEDDING_PROVIDER)

UnknownProvider(env) == Selected(env) \notin {"openai", "local", "huggingface"}

UnknownServerType(env) ==
    /\ env.LOCAL_EMBEDDING_SERVER_TYPE # ""
    /\ ToLower(env.LOCAL_EMBEDDING_SERVER_TYPE) \notin {"tei", "ollama", "custom"}

AbsentRequiredField(env) == Selected(env) = "openai" /\ env.OPENAI_API_KEY = ""

\* C18: LoadConfig fails for an unknown EMBEDDING_PROVIDER, an unknown
\* LOCAL_EMBEDDING_SERVER_TYPE, a non-positive LOCAL_EMBEDDING_TIMEOUT,
\* HUGGINGFACE_MAX_LENGTH or HUGGINGFACE_BATCH_SIZE, and an absent required
\* field of the selected provider.
C18_LoadConfigRejectsBadValues ==
    config.op = "LoadConfig" =>
        ((\/ UnknownProvider(config.env)
          \/ UnknownServerType(config.env)
          \/ NonPositive(config.env.LOCAL_EMBEDDING_TIMEOUT)
          \/ NonPositive(config.env.HUGGINGFACE_MAX_LENGTH)
          \/ NonPositive(config.env.HUGGINGFACE_BATCH_SIZE)
          \/ AbsentRequiredField(config.env))
            => config.err # "nil")


(***************************************************************************)
(* SpecReindex: two POST /index-file requests for one file.  Each request  *)
(* gets its own goroutine running IndexFile (part_003:117-123); the file   *)
(* may be saved between the requests.  The steps of IndexFile are its      *)
(* accesses to the inventory and its read of the file; reads and embed     *)
(* calls succeed.                                                          *)
(***************************************************************************)
ReqPath == "f1"

\* The contents of the file, one after the other, as the editor saves it.
FileVersions == << <<"a", "b">>, <<"c">> >>

Requests == {1, 2}

\* ChunkFileWithTreeSitter on a file read with these declarations.
ChunkFile(filePath, body) ==
    [i \in 1..Len(body) |-> [FilePath |-> filePath, Content |-> body[i]]]

ReqStep(i, pc) == [reqs EXCEPT !.g[i].pc = pc]

\* The editor saves the file.
FileEdited ==
    /\ reqs.file < Len(FileVersions)
    /\ reqs' = [reqs EXCEPT !.file = @ + 1]
    /\ UNCHANGED <<storeVars, serviceVars, concVars, cacheVars, embedder, http, config, stream, moreVars>>

\* The next request arrives: the handler starts the goroutine and answers 200.
RequestArrives ==
    /\ reqs.arrived < Cardinality(Requests)
    /\ reqs' = [reqs EXCEPT !.arrived = @ + 1, !.g[reqs.arrived + 1].pc = "delete"]
    /\ UNCHANGED <<storeVars, serviceVars, concVars, cacheVars, embedder, http, config, stream, moreVars>>

\* delete(s.indexedData, path)
ReqDelete(i) ==
    /\ reqs.g[i].pc = "delete"
    /\ indexedData' = MapDelete(indexedData, ReqPath)
    /\ reqs' = ReqStep(i, "chunk")
    /\ UNCHANGED <<storeVars, cache, disk, lastOp, deleted, concVars, cacheVars,
                   embedder, http, config, stream, moreVars>>

\* chunks, err := indexer.ChunkFileWithTreeSitter(path)
ReqChunk(i) ==
    /\ reqs.g[i].pc = "chunk"
    /\ reqs' = [reqs EXCEPT !.g[i].pc = "assign",
                            !.g[i].chunks = ChunkFile(ReqPath, FileVersions[reqs.file])]
    /\ UNCHANGED <<storeVars, serviceVars, concVars, cacheVars, embedder, http, config, stream, moreVars>>

\* s.indexedData[path] = chunks
ReqAssign(i) ==
    /\ reqs.g[i].pc = "assign"
    /\ indexedData' = MapSet(indexedData, ReqPath, reqs.g[i].chunks)
    /\ reqs' = ReqStep(i, "rebuild")
    /\ UNCHANGED <<storeVars, cache, disk, lastOp, deleted, concVars, cacheVars,
                   embedder, http, config, stream, moreVars>>

\* return s.reIndex()
ReqRebuild(i) ==
    /\ reqs.g[i].pc = "rebuild"
    /\ \E order \in Orders(DOMAIN indexedData) :
         \E r \in {reIndex(indexedData, cache, store, heap, order, {}, "none")} :
             /\ cache' = r.cache
             /\ store' = r.s
             /\ heap' = r.h
    /\ reqs' = ReqStep(i, "done")
    /\ UNCHANGED <<indexedData, disk, lastOp, deleted, lastWrite, lastQuery, concVars,
                   cacheVars, embedder, http, config, stream, moreVars>>

NextReindex ==
    \/ FileEdited
    \/ RequestArrives
    \/ \E i \in Requests :
          \/ ReqDelete(i)
          \/ ReqChunk(i)
          \/ ReqAssign(i)
          \/ ReqRebuild(i)

SpecReindex == InitStore /\ [][NextReindex]_vars

\* C19: two POST /index-file requests for one path arrive one after the
\* other; once both goroutines have finished, the inventory entry of the
\* path and the index hold the chunks produced for the later request.
C19_LaterRequestWins ==
    (\A i \in Requests : reqs.g[i].pc = "done") =>
        /\ ReqPath \in DOMAIN indexedData
        /\ indexedData[ReqPath] = reqs.g[2].chunks
        /\ SameBag(IndexPairs(store, heap),
                   InventoryPairs([p \in {ReqPath} |-> reqs.g[2].chunks]))


(***************************************************************************)
(* SpecStream: CompletionService.GetCompletionStream and the language      *)
(* model client's GetCompletionStream behind it, step by step, over the    *)
(* index that IndexFile calls build.  The receiver takes every token.      *)
(***************************************************************************)
MaxTokens == 2

\* close(ch)
CloseChannel(st) == [st EXCEPT !.closed = @ + 1]

\* The call returns; the deferred close(ch) of the client runs where there is one.
Returned(st) == [st EXCEPT !.pc = "returned"]

\* return after close(ch), or return with `defer close(ch)` pending
CloseAndReturn(st) == Returned(CloseChannel(st))

\* A new call, with a channel of its own.
StreamCall ==
    /\ stream.pc \in {"idle", "returned", "panicked"}
    /\ \E content \in QueryTexts :
         stream' = [pc |-> "embed", closed |-> 0, sent |-> 0, late |-> FALSE,
                    content |-> content]
    /\ UNCHANGED <<storeVars, serviceVars, concVars, cacheVars, embedder, http, config, reqs, moreVars>>

\* queryEmb, err := s.embedder.Embed(content)
StreamEmbed ==
    /\ stream.pc = "embed"
    /\ \E embedded \in BOOLEAN :
         stream' = IF embedded THEN [stream EXCEPT !.pc = "query"] ELSE CloseAndReturn(stream)
    /\ UNCHANGED <<storeVars, serviceVars, concVars, cacheVars, embedder, http, config, reqs, moreVars>>

\* similarDocs, err := s.db.Query(queryEmb, 5): an error closes the channel; a
\* panic inside Query leaves the call without closing it.
StreamQuery ==
    /\ stream.pc = "query"
    /\ \E q \in {Query(store, heap, Embed(stream.content), TopK)} :
         \E outcome \in (IF q.err = "undefined" THEN {"nil", "error", "panic"} ELSE {q.err}) :
            stream' = CASE outcome = "nil" -> [stream EXCEPT !.pc = "create"]
                        [] outcome = "error" -> CloseAndReturn(stream)
                        [] OTHER -> [stream EXCEPT !.pc = "panicked"]
    /\ UNCHANGED <<storeVars, serviceVars, concVars, cacheVars, embedder, http, config, reqs, moreVars>>

\* defer close(ch); stream, err := c.client.CreateChatCompletionStream(...)
StreamCreate ==
    /\ stream.pc = "create"
    /\ \E created \in BOOLEAN :
         stream' = IF created THEN [stream EXCEPT !.pc = "recv"] ELSE CloseAndReturn(stream)
    /\ UNCHANGED <<storeVars, serviceVars, concVars, cacheVars, embedder, http, config, reqs, moreVars>>

\* response, err := stream.Recv(): io.EOF, another error, a response with a
\* choice (its token is sent) or one without.
StreamRecv ==
    /\ stream.pc = "recv"
    /\ \E received \in {"EOF", "error", "token", "nochoice"} :
         /\ received = "token" => stream.sent < MaxTokens
         /\ stream' = CASE received \in {"EOF", "error"} -> CloseAndReturn(stream)
                        [] received = "token" ->
                              [stream EXCEPT !.sent = @ + 1, !.late = @ \/ stream.closed > 0]
                        [] OTHER -> stream
    /\ UNCHANGED <<storeVars, serviceVars, concVars, cacheVars, embedder, http, config, reqs, moreVars>>

NextStream ==
    \/ IndexFile
    \/ StreamCall
    \/ StreamEmbed
    \/ StreamQuery
    \/ StreamCreate
    \/ StreamRecv

SpecStream == InitStore /\ [][NextStream]_vars

\* The call is over: it returned or it panicked.
StreamOver == stream.pc \in {"returned", "panicked"}

\* C20: GetCompletionStream closes its channel exactly once on every path
\* (embed failure, query failure, stream-creation failure, stream error, end
\* of stream) and sends no token on it after closing it.
C20_ChannelClosedExactlyOnce ==
    /\ stream.closed <= 1
    /\ ~stream.late
    /\ StreamOver => stream.closed = 1


\* ---------------------------------------- IndexFile on a file it cannot chunk

\* The step is an IndexFile call that returned the chunker's error.
ChunkingFailed ==
    /\ lastOp'.op = "IndexFile"
    /\ lastOp'.err = "error"
    /\ lastOp'.rebuild = "none"

IndexMatches(inv, s, h) == SameBag(IndexPairs(s, h), InventoryPairs(inv))

\* C26: an IndexFile(path) that fails because the file cannot be chunked
\* leaves the service as it was: the inventory holds what it held for path
\* and the index still matches the inventory.
C26_FailedIndexFileChangesNothing ==
    [][ChunkingFailed =>
           /\ indexedData' = indexedData
           /\ IndexMatches(indexedData, store, heap) => IndexMatches(indexedData', store', heap')]_vars


\* ------------------------------------------------ embed calls after LoadIndex

\* The (path, content) pairs of an inventory's chunks.
ChunkKeys(inv) ==
    UNION {{ComputeKey(p, inv[p][i].Content) : i \in 1..Len(inv[p])} : p \in DOMAIN inv}

\* The chunks of inv whose (path, content) the snapshot does not hold.
NotInSnapshot(inv, snapshot) ==
    {c \in UNION {{<<q, j>> : j \in 1..Len(inv[q])} : q \in DOMAIN inv} :
        ComputeKey(c[1], inv[c[1]][c[2]].Content) \notin ChunkKeys(snapshot)}

\* C27: after LoadIndex has restored a snapshot, the IndexFile or DeleteFile
\* call that follows makes embed calls only for chunks whose (path, content)
\* the snapshot did not hold.
C27_RestoredChunksAreNotEmbeddedAgain ==
    [][(/\ lastOp.op = "LoadIndex"
        /\ lastOp.err = "nil"
        /\ lastOp'.op \in {"IndexFile", "DeleteFile"})
          => lastOp'.calls <= Cardinality(NotInSnapshot(indexedData', disk.IndexedData))]_vars


\* ------------------------------------------------ excluded and hidden files

\* The files of the workspace root, by base name; all lie in the root itself.
FileNames == {"main.go", "util.go", ".hidden.go", "Notes.TXT", "go.sum", "data.json"}

\* EXCLUDED_FILES and EXCLUDED_EXTENSIONS as the configuration may hold them.
ExcludedFilesLists == {<< >>, <<"">>, <<"util.go">>}
ExcludedExtensionsLists == {<< >>, <<"txt">>, <<"TXT">>}

\* strings.HasSuffix and strings.HasPrefix
HasSuffix(str, suffix) ==
    /\ Len(str) >= Len(suffix)
    /\ SubSeq(str, Len(str) - Len(suffix) + 1, Len(str)) = suffix

HasPrefix(str, prefix) ==
    /\ Len(str) >= Len(prefix)
    /\ SubSeq(str, 1, Len(prefix)) = prefix

staticExcludes == {"package-lock.json", "yarn.lock", "pnpm-lock.yaml", "go.sum"}

defaultSuffixes == <<".lock", ".csv", ".json", ".svg", ".png", ".a", ".o", ".so">>

\* CompletionService.isExcluded with the service's configuration cfg
isExcluded(cfg, name) ==
    \/ name \in staticExcludes
    \/ \E i \in DOMAIN defaultSuffixes : HasSuffix(name, defaultSuffixes[i])
    \/ \E i \in DOMAIN cfg.ExcludedFiles :
          cfg.ExcludedFiles[i] # "" /\ cfg.ExcludedFiles[i] = name
    \/ \E i \in DOMAIN cfg.ExcludedExtensions :
          /\ cfg.ExcludedExtensions[i] # ""
          /\ HasSuffix(ToLower(name), "." \o ToLower(cfg.ExcludedExtensions[i]))

\* ChunkFileWithTreeSitter on a file of the root: the Go sources hold one
\* declaration, the other files none.
ChunkNamedFile(name, readable) ==
    IF ~readable THEN [err |-> "error", chunks |-> << >>]
    ELSE IF HasSuffix(name, ".go")
         THEN [err |-> "nil", chunks |-> <<[FilePath |-> name, Content |-> "func"]>>]
         ELSE [err |-> "nil", chunks |-> << >>]

\* The chunks the walk of IndexDirectory stages, file by file of order.
RECURSIVE WalkNamed(_, _, _)
WalkNamed(cfg, order, unreadable) ==
    IF order = << >> THEN << >>
    ELSE LET name == Head(order)
             rest == WalkNamed(cfg, Tail(order), unreadable)
         IN  IF HasPrefix(name, ".") THEN rest
             ELSE IF isExcluded(cfg, name) THEN rest
             ELSE ChunkNamedFile(name, name \notin unreadable).chunks \o rest

\* for _, chunk := range allChunks { s.indexedData[chunk.FilePath] = append(...) }
RECURSIVE StageNamed(_, _)
StageNamed(inv, allChunks) ==
    IF allChunks = << >> THEN inv
    ELSE LET chunk == Head(allChunks)
             old == IF chunk.FilePath \in DOMAIN inv THEN inv[chunk.FilePath] ELSE << >>
         IN  StageNamed(MapSet(inv, chunk.FilePath, Append(old, chunk)), Tail(allChunks))

\* The files in the order filepath.Walk visits them: lexical order.
NamedWalkOrder == <<".hidden.go", "Notes.TXT", "data.json", "go.sum", "main.go", "util.go">>

\* NewCompletionService: a process starts with some exclusion lists.
NamedNewService ==
    \E files \in ExcludedFilesLists, exts \in ExcludedExtensionsLists :
        /\ names' = [names EXCEPT !.op = "NewCompletionService", !.indexedData = << >>,
                                  !.ExcludedFiles = files, !.ExcludedExtensions = exts]
        /\ UNCHANGED <<storeVars, serviceVars, concVars, cacheVars,
                       embedder, http, config, reqs, stream, watch, graph>>

\* IndexDirectory(root): load the snapshot if there is one, walk otherwise.
NamedIndexDirectory ==
    \E unreadable \in SUBSET {"main.go"}, reindexed \in BOOLEAN, saved \in BOOLEAN :
        /\ \A p \in DOMAIN names.indexedData : Len(names.indexedData[p]) < MaxCopies
        /\ IF names.disk # None
           THEN names' = [names EXCEPT !.op = "LoadIndex", !.indexedData = names.disk]
           ELSE \E inv \in {StageNamed(names.indexedData,
                                       WalkNamed(names, NamedWalkOrder, unreadable))} :
                   names' = [names EXCEPT !.op = "IndexDirectory", !.indexedData = inv,
                                          !.disk = IF reindexed /\ saved THEN inv ELSE None]
        /\ UNCHANGED <<storeVars, serviceVars, concVars, cacheVars,
                       embedder, http, config, reqs, stream, watch, graph>>

\* IndexFile(path), as POST /index-file or the caller of the service makes it.
NamedIndexFile ==
    \E path \in FileNames, readable \in BOOLEAN :
        /\ \E r \in {ChunkNamedFile(path, readable)} :
              names' = [names EXCEPT
                  !.op = "IndexFile",
                  !.indexedData = IF r.err # "nil" THEN MapDelete(names.indexedData, path)
                                  ELSE MapSet(MapDelete(names.indexedData, path), path, r.chunks)]
        /\ UNCHANGED <<storeVars, serviceVars, concVars, cacheVars,
                       embedder, http, config, reqs, stream, watch, graph>>

NextExclude ==
    \/ NamedNewService
    \/ NamedIndexDirectory
    \/ NamedIndexFile

SpecExclude == InitStore /\ [][NextExclude]_vars

\* The base name matches an exclusion rule of the service, or starts with '.'.
MatchesExclusionRule(cfg, name) == isExcluded(cfg, name) \/ HasPrefix(name, ".")

\* C28: no sequence of IndexDirectory and IndexFile calls puts into the
\* inventory a file whose base name matches an exclusion rule (the static deny
\* list, a default suffix, a configured excluded name or extension) or starts
\* with '.'.
C28_NoExcludedFileInInventory ==
    names.op \in {"IndexDirectory", "IndexFile"} =>
        \A p \in DOMAIN names.indexedData :
            names.indexedData[p] # << >> => ~MatchesExclusionRule(names, p)


\* ------------------------------------------------------- indexer/watcher.go

\* The most events the underlying watcher emits.
MaxEvents == 3

\* The fsnotify events the underlying watcher emits.
Events == [Name : {"main.go", "util.go"}, Op : {"WRITE", "REMOVE"}]

\* Watcher.Start(root): add the directories, start the goroutine that reads
\* w.watcher.Events and w.watcher.Errors, return w.watcher.Events.
WatcherStart ==
    /\ watch.pc = "new"
    /\ \E walked \in BOOLEAN :
          watch' = [watch EXCEPT !.pc = IF walked THEN "watching" ELSE "failed"]
    /\ UNCHANGED <<storeVars, serviceVars, concVars, cacheVars,
                   embedder, http, config, reqs, stream, names, graph>>

\* The underlying watcher sends an event on its Events channel, which has no
\* buffer: the send waits for a receiver.
WatcherEmits ==
    \E event \in Events :
        /\ watch.pc = "watching"
        /\ watch.sending = None
        /\ Len(watch.received) < MaxEvents
        /\ watch' = [watch EXCEPT !.sending = event]
        /\ UNCHANGED <<storeVars, serviceVars, concVars, cacheVars,
                       embedder, http, config, reqs, stream, names, graph>>

\* The goroutine of Start takes the event in its select and logs it.
LoggerReceives ==
    /\ watch.pc = "watching"
    /\ watch.sending # None
    /\ watch' = [watch EXCEPT
           !.sending = None,
           !.received = Append(@, [event |-> watch.sending, by |-> "logger"])]
    /\ UNCHANGED <<storeVars, serviceVars, concVars, cacheVars,
                   embedder, http, config, reqs, stream, names, graph>>

\* The consumer of the channel Start returned takes the event.
ConsumerReceives ==
    /\ watch.pc = "watching"
    /\ watch.sending # None
    /\ watch' = [watch EXCEPT
           !.sending = None,
           !.received = Append(@, [event |-> watch.sending, by |-> "consumer"])]
    /\ UNCHANGED <<storeVars, serviceVars, concVars, cacheVars,
                   embedder, http, config, reqs, stream, names, graph>>

\* The Events channel is closed: the goroutine returns and closes the watcher.
WatcherClosed ==
    /\ watch.pc = "watching"
    /\ watch.sending = None
    /\ watch' = [watch EXCEPT !.pc = "closed"]
    /\ UNCHANGED <<storeVars, serviceVars, concVars, cacheVars,
                   embedder, http, config, reqs, stream, names, graph>>

NextWatch ==
    \/ WatcherStart
    \/ WatcherEmits
    \/ LoggerReceives
    \/ ConsumerReceives
    \/ WatcherClosed

SpecWatch == InitStore /\ [][NextWatch]_vars

\* C30: every event the underlying watcher emits after Start(root) is received
\* by the consumer of the channel Start returns; none is taken only by the
\* watcher's own logging goroutine.
C30_ConsumerReceivesEveryEvent ==
    \A i \in DOMAIN watch.received : watch.received[i].by = "consumer"


\* ------------------------------------------- vector_search.c: the HNSW path

\* The most vectors build_hnsw_graph is given, the highest layer
\* determine_random_layer draws, and the largest max_connections.
MaxNodes == 3
MaxLayer == 1
MaxConnections == 1

\* The vectors given to create_hnsw_index, in 1/Scale units.
HnswPoints == {<<0, 0>>, <<Scale, 0>>}

\* ---- the priority queue: the array candidates[0..size-1] as a sequence

SearchCandidate(node_id, distance) == [node_id |-> node_id, distance |-> distance]

swap_candidates(queue, a, b) == [queue EXCEPT ![a] = queue[b], ![b] = queue[a]]

\* should_swap, left_is_better, right_is_better
IsBetter(is_max_heap, a, b) ==
    IF is_max_heap THEN a.distance > b.distance ELSE a.distance < b.distance

RECURSIVE heapify_up(_, _, _)
heapify_up(queue, is_max_heap, child_index) ==
    LET parent_index == IF child_index = 1 THEN 1 ELSE child_index \div 2
    IN  IF IsBetter(is_max_heap, queue[child_index], queue[parent_index])
        THEN heapify_up(swap_candidates(queue, child_index, parent_index), is_max_heap, parent_index)
        ELSE queue

RECURSIVE heapify_down(_, _, _)
heapify_down(queue, is_max_heap, parent_index) ==
    LET left_child == 2 * parent_index
        right_child == 2 * parent_index + 1
        left_target == IF /\ left_child <= Len(queue)
                          /\ IsBetter(is_max_heap, queue[left_child], queue[parent_index])
                       THEN left_child ELSE parent_index
        target_index == IF /\ right_child <= Len(queue)
                           /\ IsBetter(is_max_heap, queue[right_child], queue[left_target])
                        THEN right_child ELSE left_target
    IN  IF target_index # parent_index
        THEN heapify_down(swap_candidates(queue, parent_index, target_index), is_max_heap, target_index)
        ELSE queue

insert_candidate(queue, capacity, is_max_heap, node_id, distance) ==
    IF Len(queue) < capacity
    THEN heapify_up(Append(queue, SearchCandidate(node_id, distance)), is_max_heap, Len(queue) + 1)
    ELSE IF is_max_heap /\ distance < queue[1].distance
         THEN heapify_down([queue EXCEPT ![1] = SearchCandidate(node_id, distance)], is_max_heap, 1)
         ELSE IF ~is_max_heap /\ distance > queue[1].distance
              THEN heapify_down([queue EXCEPT ![1] = SearchCandidate(node_id, distance)], is_max_heap, 1)
              ELSE queue

\* extract_top_candidate: the queue it leaves; the top is queue[1].
extract_top_candidate(queue, is_max_heap) ==
    IF Len(queue) - 1 > 0
    THEN heapify_down([SubSeq(queue, 1, Len(queue) - 1) EXCEPT ![1] = queue[Len(queue)]],
                      is_max_heap, 1)
    ELSE << >>

\* ---- nodes: ids count from 0, layer_connections[layer + 1] is the list of a layer

create_hnsw_node(vector_id, maximum_layer) ==
    [vector_id |-> vector_id, maximum_layer |-> maximum_layer,
     layer_connections |-> [layer \in 1..(maximum_layer + 1) |-> << >>]]

Connections(node, layer) == node.layer_connections[layer + 1]

\* A node that takes the id although its list holds it already.
add_connection_to_node_NoDuplicateCheck(node, layer, connected_node_id) ==
    IF layer > node.maximum_layer THEN node
    ELSE [node EXCEPT !.layer_connections[layer + 1] = Append(@, connected_node_id)]

\* A node that refuses its own top layer as well.
add_connection_to_node_GuardAtTopLayer(node, layer, connected_node_id) ==
    IF layer >= node.maximum_layer THEN node
    ELSE IF \E connection_index \in 1..Len(Connections(node, layer)) :
               Connections(node, layer)[connection_index] = connected_node_id
         THEN node
         ELSE [node EXCEPT !.layer_connections[layer + 1] = Append(@, connected_node_id)]

add_connection_to_node(node, layer, connected_node_id) ==
    IF layer > node.maximum_layer THEN node
    ELSE IF \E connection_index \in 1..Len(Connections(node, layer)) :
               Connections(node, layer)[connection_index] = connected_node_id
         THEN node
         ELSE [node EXCEPT !.layer_connections[layer + 1] = Append(@, connected_node_id)]

\* ---- the blocks of the native heap the HNSW path allocates

Block(kind, node, layer) == [kind |-> kind, node |-> node, layer |-> layer]

\* malloc and calloc calls of create_hnsw_node for node vector_id
NodeArrays(vector_id, maximum_layer) ==
    {Block("layer_connections", vector_id, 0 - 1),
     Block("connection_counts", vector_id, 0 - 1),
     Block("allocated_connection_sizes", vector_id, 0 - 1)}
    \cup {Block("layer_connections[layer]", vector_id, layer) : layer \in 0..maximum_layer}

NodeBlocks(vector_id, maximum_layer) ==
    {Block("HNSWNode", vector_id, 0 - 1)} \cup NodeArrays(vector_id, maximum_layer)

\* create_priority_queue and free_priority_queue: the struct and its array
QueueBlocks(name) ==
    {Block(name, 0 - 1, 0 - 1), Block(name \o "->candidates", 0 - 1, 0 - 1)}

\* The blocks free_hnsw_graph and free_index free.
free_hnsw_graph(nodes) ==
    UNION {NodeArrays(nodes[i].vector_id, nodes[i].maximum_layer) : i \in 1..Len(nodes)}
    \cup {Block("graph->nodes", 0 - 1, 0 - 1), Block("HNSWGraph", 0 - 1, 0 - 1)}

free_index_hnsw(nodes) == free_hnsw_graph(nodes) \cup {Block("VectorIndex", 0 - 1, 0 - 1)}


\* ---- build_hnsw_graph

Vector(g, node_id) == g.vectors[node_id + 1]

Node(g, node_id) == g.nodes[node_id + 1]

\* The loop that initialises the nodes: the entry point is the first node of
\* the highest layer above 0, node 0 if there is none.
RECURSIVE EntryPoint(_, _, _, _)
EntryPoint(layers, vector_index, entry_point_node_id, maximum_layer_in_graph) ==
    IF vector_index >= Len(layers)
    THEN [entry_point_node_id |-> entry_point_node_id,
          maximum_layer_in_graph |-> maximum_layer_in_graph]
    ELSE IF layers[vector_index + 1] > maximum_layer_in_graph
         THEN EntryPoint(layers, vector_index + 1, vector_index, layers[vector_index + 1])
         ELSE EntryPoint(layers, vector_index + 1, entry_point_node_id, maximum_layer_in_graph)

\* The greedy loop over the connections of search_node at search_layer.
RECURSIVE GreedyLayer(_, _, _, _, _, _)
GreedyLayer(g, current_vector, connections, connection_index, best_distance, search_node) ==
    IF connection_index > Len(connections) THEN search_node
    ELSE LET neighbor_id == connections[connection_index]
             neighbor_distance == calculate_euclidean_distance(current_vector, Vector(g, neighbor_id))
         IN  IF neighbor_distance < best_distance
             THEN GreedyLayer(g, current_vector, connections, connection_index + 1,
                              neighbor_distance, neighbor_id)
             ELSE GreedyLayer(g, current_vector, connections, connection_index + 1,
                              best_distance, search_node)

\* Greedy search from the top layer down to the layer above target_layer.
RECURSIVE GreedyDescent(_, _, _, _, _)
GreedyDescent(g, current_vector, search_layer, target_layer, current_search_node) ==
    IF search_layer <= target_layer THEN current_search_node
    ELSE LET best_distance == calculate_euclidean_distance(current_vector,
                                                           Vector(g, current_search_node))
             search_node == Node(g, current_search_node)
         IN  GreedyDescent(g, current_vector, search_layer - 1, target_layer,
                 IF search_layer <= search_node.maximum_layer
                 THEN GreedyLayer(g, current_vector, Connections(search_node, search_layer), 1,
                                  best_distance, current_search_node)
                 ELSE current_search_node)

\* The neighbor enters the queues although it does not improve on the worst
\* visited node, only equals it.
ImprovesOrTies(visited_nodes, construction_search_width, neighbor_distance) ==
    \/ Len(visited_nodes) < construction_search_width
    \/ neighbor_distance <= visited_nodes[1].distance

\* if (visited_nodes->size < construction_search_width ||
\*     neighbor_distance < visited_nodes->candidates[0].distance)
Improves(visited_nodes, construction_search_width, neighbor_distance) ==
    \/ Len(visited_nodes) < construction_search_width
    \/ neighbor_distance < visited_nodes[1].distance

\* The loop over the neighbors of the extracted candidate; queues holds
\* layer_candidates and visited_nodes.
\* One neighbor of the extracted candidate: it enters both queues if it improves.
ExploreNeighbor(g, neighbor_id, neighbor_distance, queues) ==
    IF Improves(queues.visited_nodes, g.construction_search_width, neighbor_distance)
    THEN [layer_candidates |-> insert_candidate(queues.layer_candidates,
                                                g.construction_search_width, FALSE,
                                                neighbor_id, neighbor_distance),
          visited_nodes |-> insert_candidate(queues.visited_nodes,
                                             2 * g.construction_search_width, TRUE,
                                             neighbor_id, neighbor_distance)]
    ELSE queues

RECURSIVE ExploreNeighbors(_, _, _, _, _)
ExploreNeighbors(g, current_vector, connections, neighbor_index, queues) ==
    IF neighbor_index > Len(connections) THEN queues
    ELSE CHOOSE explored \in
             {ExploreNeighbors(g, current_vector, connections, neighbor_index + 1, next) :
                 next \in {ExploreNeighbor(g, connections[neighbor_index],
                               calculate_euclidean_distance(current_vector,
                                   Vector(g, connections[neighbor_index])),
                               queues)}} : TRUE

\* while (visited_nodes->size > 0) candidates_array[candidate_count++] = extract_top_candidate(...)
RECURSIVE CandidatesArray(_)
CandidatesArray(visited_nodes) ==
    IF visited_nodes = << >> THEN << >>
    ELSE CHOOSE array \in {<<visited_nodes[1]>> \o CandidatesArray(rest) :
                               rest \in {extract_top_candidate(visited_nodes, TRUE)}} : TRUE

\* The candidate is too similar to a connection selected already.
TooSimilar(g, candidate, selected_connections) ==
    \E selected_index \in 1..Len(selected_connections) :
        /\ 10 * calculate_euclidean_distance(Vector(g, candidate.node_id),
                                             Vector(g, selected_connections[selected_index]))
              < 7 * candidate.distance

\* Select remaining candidates with diversity consideration.
RECURSIVE SelectDiverse(_, _, _, _, _)
SelectDiverse(g, candidates_array, candidate_index, connections_to_make, selected_connections) ==
    IF candidate_index > Len(candidates_array) \/ Len(selected_connections) >= connections_to_make
    THEN selected_connections
    ELSE LET candidate == candidates_array[candidate_index]
         IN  CHOOSE selected \in
                 {SelectDiverse(g, candidates_array, candidate_index + 1, connections_to_make, next) :
                     next \in {IF candidate.node_id = g.current_node_id THEN selected_connections
                               ELSE IF TooSimilar(g, candidate, selected_connections)
                                    THEN selected_connections
                                    ELSE Append(selected_connections, candidate.node_id)}} : TRUE

\* If we still need more connections, add remaining candidates.
RECURSIVE SelectRemaining(_, _, _, _, _)
SelectRemaining(g, candidates_array, candidate_index, connections_to_make, selected_connections) ==
    IF candidate_index > Len(candidates_array) \/ Len(selected_connections) >= connections_to_make
    THEN selected_connections
    ELSE LET candidate == candidates_array[candidate_index]
             already_selected == \E selected_index \in 1..Len(selected_connections) :
                                     selected_connections[selected_index] = candidate.node_id
         IN  CHOOSE selected \in
                 {SelectRemaining(g, candidates_array, candidate_index + 1, connections_to_make, next) :
                     next \in {IF candidate.node_id = g.current_node_id THEN selected_connections
                               ELSE IF already_selected THEN selected_connections
                               ELSE Append(selected_connections, candidate.node_id)}} : TRUE

\* The connections selected for the layer out of the visited nodes.
SelectConnections(g) ==
    CHOOSE selected_connections \in
        {LET candidate_count == Len(candidates_array)
             max_connections_this_layer == IF g.connection_layer = 0
                                           THEN g.max_connections_layer_zero
                                           ELSE g.max_connections_per_node
             connections_to_make == IF candidate_count < max_connections_this_layer
                                    THEN candidate_count ELSE max_connections_this_layer
             first == IF candidate_count > 0 /\ candidates_array[1].node_id # g.current_node_id
                      THEN <<candidates_array[1].node_id>> ELSE << >>
         IN  SelectRemaining(g, candidates_array, 2, connections_to_make,
                 SelectDiverse(g, candidates_array, 2, connections_to_make, first)) :
            candidates_array \in {CandidatesArray(g.visited_nodes)}} : TRUE


\* malloc and free on the blocks of g
Allocate(g, allocated) == [g EXCEPT !.blocks = @ \cup allocated]

Release(g, freed) ==
    [g EXCEPT !.blocks = @ \ freed, !.freed_not_live = @ \cup (freed \ g.blocks)]

\* create_hnsw_index up to the end of the loop that initialises the nodes.
HnswCreate ==
    /\ graph.pc = "new"
    /\ \E vector_count \in 1..MaxNodes, max_connections \in 1..MaxConnections :
       \E vectors \in [1..vector_count -> HnswPoints],
          layers \in [1..vector_count -> 0..MaxLayer],
          max_connections_layer_zero \in {max_connections, 2 * max_connections} :
       \E e \in {EntryPoint(layers, 0, 0, 0)} :
          graph' = [NoGraph EXCEPT
              !.pc = IF vector_count > 1 THEN "insert" ELSE "built",
              !.vectors = vectors,
              !.nodes = [i \in 1..vector_count |-> create_hnsw_node(i - 1, layers[i])],
              !.entry_point_node_id = e.entry_point_node_id,
              !.maximum_layer_in_graph = e.maximum_layer_in_graph,
              !.max_connections_per_node = max_connections,
              !.max_connections_layer_zero = max_connections_layer_zero,
              !.construction_search_width = max_connections * 2,
              !.current_node_id = 1,
              !.blocks = {Block("VectorIndex", 0 - 1, 0 - 1),
                          Block("HNSWGraph", 0 - 1, 0 - 1),
                          Block("graph->nodes", 0 - 1, 0 - 1)}
                         \cup UNION {NodeBlocks(i - 1, layers[i]) : i \in 1..vector_count}]
    /\ UNCHANGED <<storeVars, serviceVars, concVars, cacheVars,
                   embedder, http, config, reqs, stream, names, watch>>

\* The insertion of current_node_id begins: the greedy search down to the
\* layer above the node's own.
HnswInsert ==
    /\ graph.pc = "insert"
    /\ \E start \in {GreedyDescent(graph, Vector(graph, graph.current_node_id),
                                   graph.maximum_layer_in_graph,
                                   Node(graph, graph.current_node_id).maximum_layer,
                                   graph.entry_point_node_id)} :
          graph' = [Allocate(graph, QueueBlocks("closest_candidates")) EXCEPT
              !.pc = "layer",
              !.current_search_node = start,
              !.connection_layer = Node(graph, graph.current_node_id).maximum_layer]
    /\ UNCHANGED <<storeVars, serviceVars, concVars, cacheVars,
                   embedder, http, config, reqs, stream, names, watch>>

\* The beam search of connection_layer begins from current_search_node.
HnswBeamStart ==
    /\ graph.pc = "layer"
    /\ \E d \in {calculate_euclidean_distance(Vector(graph, graph.current_node_id),
                                              Vector(graph, graph.current_search_node))} :
          graph' = [Allocate(graph, QueueBlocks("layer_candidates") \cup QueueBlocks("visited_nodes"))
              EXCEPT
              !.pc = "beam",
              !.layer_candidates = insert_candidate(<< >>, graph.construction_search_width, FALSE,
                                                    graph.current_search_node, d),
              !.visited_nodes = insert_candidate(<< >>, 2 * graph.construction_search_width, TRUE,
                                                 graph.current_search_node, d)]
    /\ UNCHANGED <<storeVars, serviceVars, concVars, cacheVars,
                   embedder, http, config, reqs, stream, names, watch>>

\* One turn of while (layer_candidates->size > 0).
HnswBeamStep ==
    /\ graph.pc = "beam"
    /\ graph.layer_candidates # << >>
    /\ \E candidate_node \in {Node(graph, graph.layer_candidates[1].node_id)} :
       \E queues \in {[layer_candidates |-> extract_top_candidate(graph.layer_candidates, FALSE),
                       visited_nodes |-> graph.visited_nodes]} :
       \E explored \in {IF graph.connection_layer <= candidate_node.maximum_layer
                        THEN ExploreNeighbors(graph, Vector(graph, graph.current_node_id),
                                              Connections(candidate_node, graph.connection_layer),
                                              1, queues)
                        ELSE queues} :
          graph' = [graph EXCEPT !.layer_candidates = explored.layer_candidates,
                                 !.visited_nodes = explored.visited_nodes]
    /\ UNCHANGED <<storeVars, serviceVars, concVars, cacheVars,
                   embedder, http, config, reqs, stream, names, watch>>

\* The beam search is over: the connections of the layer are selected.
HnswSelect ==
    /\ graph.pc = "beam"
    /\ graph.layer_candidates = << >>
    /\ \E selected \in {SelectConnections(graph)} :
          graph' = [Allocate(graph, {Block("candidates_array", 0 - 1, 0 - 1),
                                     Block("selected_connections", 0 - 1, 0 - 1)}) EXCEPT
              !.pc = "link",
              !.visited_nodes = << >>,
              !.selected_connections = selected,
              !.connection_index = 0]
    /\ UNCHANGED <<storeVars, serviceVars, concVars, cacheVars,
                   embedder, http, config, reqs, stream, names, watch>>

\* One turn of the loop that makes the bidirectional connections.
HnswLink ==
    /\ graph.pc = "link"
    /\ graph.connection_index < Len(graph.selected_connections)
    /\ \E peer \in {graph.selected_connections[graph.connection_index + 1]} :
       \E forward \in {[graph.nodes EXCEPT ![graph.current_node_id + 1] =
                           add_connection_to_node(@, graph.connection_layer, peer)]} :
          graph' = [graph EXCEPT
              !.nodes = [forward EXCEPT ![peer + 1] =
                            add_connection_to_node(@, graph.connection_layer, graph.current_node_id)],
              !.connection_index = @ + 1]
    /\ UNCHANGED <<storeVars, serviceVars, concVars, cacheVars,
                   embedder, http, config, reqs, stream, names, watch>>

\* The layer is done: its arrays and queues are freed; the next layer down,
\* the next node, or the end of the build follows.
HnswLayerDone ==
    /\ graph.pc = "link"
    /\ graph.connection_index = Len(graph.selected_connections)
    /\ \E g \in {Release(graph, {Block("candidates_array", 0 - 1, 0 - 1),
                                 Block("selected_connections", 0 - 1, 0 - 1)}
                                \cup QueueBlocks("layer_candidates")
                                \cup QueueBlocks("visited_nodes"))} :
          graph' = IF graph.connection_layer > 0
                   THEN [g EXCEPT !.pc = "layer", !.connection_layer = @ - 1,
                                  !.selected_connections = << >>, !.connection_index = 0]
                   ELSE [Release(g, QueueBlocks("closest_candidates")) EXCEPT
                            !.pc = IF graph.current_node_id + 1 < Len(graph.nodes)
                                   THEN "insert" ELSE "built",
                            !.current_node_id = @ + 1,
                            !.selected_connections = << >>, !.connection_index = 0]
    /\ UNCHANGED <<storeVars, serviceVars, concVars, cacheVars,
                   embedder, http, config, reqs, stream, names, watch>>

\* free_index on the index create_hnsw_index returned.
HnswFree ==
    /\ graph.pc = "built"
    /\ graph' = [Release(graph, free_index_hnsw(graph.nodes)) EXCEPT !.pc = "freed"]
    /\ UNCHANGED <<storeVars, serviceVars, concVars, cacheVars,
                   embedder, http, config, reqs, stream, names, watch>>

NextHnsw ==
    \/ HnswCreate
    \/ HnswInsert
    \/ HnswBeamStart
    \/ HnswBeamStep
    \/ HnswSelect
    \/ HnswLink
    \/ HnswLayerDone
    \/ HnswFree

SpecHnsw == InitStore /\ [][NextHnsw]_vars



\* The ids of the nodes of g and the layers of node a.
NodeIds(g) == 0..(Len(g.nodes) - 1)

Layers(g, a) == 0..Node(g, a).maximum_layer

\* b is in a's neighbor list of the layer.
Linked(g, a, layer, b) ==
    /\ layer <= Node(g, a).maximum_layer
    /\ \E i \in 1..Len(Connections(Node(g, a), layer)) : Connections(Node(g, a), layer)[i] = b

\* C22: in every graph build_hnsw_graph produces, whatever layers the nodes
\* drew, the neighbor list of each node at each layer holds no id twice and
\* never the node's own id.
C22_NeighborListsAreSets ==
    graph.pc = "built" =>
        \A a \in NodeIds(graph) : \A layer \in Layers(graph, a) :
            LET list == Connections(Node(graph, a), layer)
            IN  /\ \A i, j \in 1..Len(list) : list[i] = list[j] => i = j
                /\ \A i \in 1..Len(list) : list[i] # a

\* A graph is built whose entry point was inserted after a node that had
\* linked to it: its own insertion selected that neighbor again.
C22_Witness ==
    /\ graph.pc = "built"
    /\ graph.entry_point_node_id >= 2
    /\ Len(Connections(Node(graph, graph.entry_point_node_id), 0)) >= 1

\* C23: linking is bidirectional in every state of the construction: for every
\* layer and nodes a and b, b is in a's list of the layer exactly if a is in
\* b's, and every id in a list of layer l names a node of maximum layer l or
\* higher.
C23_LinksAreBidirectional ==
    \A a \in NodeIds(graph) : \A layer \in Layers(graph, a) :
        \A i \in 1..Len(Connections(Node(graph, a), layer)) :
            LET b == Connections(Node(graph, a), layer)[i]
            IN  /\ b \in NodeIds(graph)
                /\ Node(graph, b).maximum_layer >= layer
                /\ Linked(graph, b, layer, a)

\* The construction has linked two nodes above layer 0 and is linking on.
C23_Witness ==
    /\ graph.pc = "link"
    /\ graph.connection_index >= 1
    /\ \E a, b \in NodeIds(graph) : Linked(graph, a, 1, b)

\* The nodes reached from the nodes of frontier through layer-0 links.
RECURSIVE ReachableAtLayerZero(_, _)
ReachableAtLayerZero(g, frontier) ==
    LET next == frontier \cup {b \in NodeIds(g) : \E a \in frontier : Linked(g, a, 0, b)}
    IN  IF next = frontier THEN frontier ELSE ReachableAtLayerZero(g, next)

\* C25: in every graph build_hnsw_graph produces over N >= 1 vectors, whatever
\* layers the nodes drew, every node (node 0 included) is reachable from the
\* entry point through layer-0 links.
C25_EveryNodeReachable ==
    graph.pc = "built" =>
        ReachableAtLayerZero(graph, {graph.entry_point_node_id}) = NodeIds(graph)

\* C21: when free_index has returned, every block allocated on the HNSW path
\* (the index, the graph, its node array, the nodes and their arrays, the
\* queues and arrays of the construction) has been freed exactly once: none
\* is left allocated and none was freed while not allocated.
C21_EveryBlockFreedOnce ==
    graph.pc = "freed" => graph.blocks = {} /\ graph.freed_not_live = {}

\* What a turn of the beam search's loop uses up: the free room of
\* visited_nodes, then the sum of its distances, then the waiting candidates.
RECURSIVE SumOfDistances(_)
SumOfDistances(queue) ==
    IF queue = << >> THEN 0 ELSE queue[1].distance + SumOfDistances(Tail(queue))

BeamRank(g) ==
    <<2 * g.construction_search_width - Len(g.visited_nodes),
      SumOfDistances(g.visited_nodes),
      Len(g.layer_candidates)>>

\* r comes before s in the lexicographic order of triples of naturals.
LexLess(r, s) ==
    \/ r[1] < s[1]
    \/ r[1] = s[1] /\ r[2] < s[2]
    \/ r[1] = s[1] /\ r[2] = s[2] /\ r[3] < s[3]

\* C29: the beam search of every layer ends, although it keeps no visited set
\* and the graph has cycles and vectors at equal distances, and so
\* build_hnsw_graph returns: every turn of the loop lowers a rank of three
\* naturals, which cannot fall for ever.
C29_BeamSearchTerminates ==
    [][(graph.pc = "beam" /\ graph'.pc = "beam")
          => /\ \A i \in 1..3 : BeamRank(graph')[i] \in Nat
             /\ LexLess(BeamRank(graph'), BeamRank(graph))]_vars

\* A beam search has gone round a cycle of the graph: it holds a node it had
\* visited a second time.
C29_Witness ==
    /\ graph.pc = "beam"
    /\ \E i, j \in 1..Len(graph.visited_nodes) :
          /\ i # j
          /\ graph.visited_nodes[i].node_id = graph.visited_nodes[j].node_id

====
